---- MODULE Spec2Model ----
(***************************************************************************)
(* A model of the GNS messaging core: the signed and sealed envelope       *)
(* (gns-crypto-core), the message router and the local store (src-tauri),  *)
(* and the relay session (network).                                        *)
(*                                                                         *)
(* Strings that the code slices, sorts or normalises (public keys, thread  *)
(* ids, subjects) are sequences of character codes; strings that are only  *)
(* compared (ids, payload types, handles) are TLA+ strings.  Cryptography  *)
(* is symbolic: a signature names its signer and the signed bytes, a       *)
(* ciphertext names the key, the nonce and the plaintext it was made from, *)
(* a digest names its preimage.                                            *)
(***************************************************************************)
EXTENDS Integers, Sequences, FiniteSets, TLC

VARIABLES
    wire,               \* the inbound frame waiting for the router, or NoFrame
    origin,             \* how the envelope on the wire was made (observer)
    opened,             \* the router's last open_envelope result (observer)
    routerAlive,        \* the router task is running (it has not panicked)
    handled,            \* frames the router has taken from its channel
    threads,            \* table threads
    messages,           \* table messages
    events,             \* host events emitted, oldest first
    relayOut,           \* frames the router sent on the relay, oldest first
    saveResult,         \* "ok" or "err": how the router's last save ended
    lastMsg,            \* the message the router took last (observer)
    lastOp,             \* the store call made last and its result (observer)
    savedBefore,        \* <<message id, thread id>> of the saves that returned Ok
    storeOps,           \* store calls made so far
    state,              \* RelayConnection.state
    reconnect_attempts, \* RelayConnection.reconnect_attempts
    sender,             \* RelayConnection.sender: 0 (None) or the connection
                        \* whose queue it feeds
    readers,            \* connections whose reader task is running
    writers,            \* connections whose writer task is running
    queued,             \* frames in each connection's outbound queue
    generation,         \* connections established so far
    pc,                 \* where the host's call stands, or how the last ended
    build,              \* "debug" (overflow checks) or "release"
    slept,              \* the backoff sleep of the reconnect call under way
    failedRun,          \* reconnect calls since the last successful connect
    lastFault,          \* the last socket error a task hit (observer)
    accepted,           \* numbered frames the outbound queue has accepted
    written,            \* the frame the writer wrote to the socket last
    holder,             \* the task that holds each mutex of AppState, or "free"
    at,                 \* where each task stands in its handler
    arg,                \* the arguments of the pure function under study
    returned,           \* what the function returned for them
    trajectory,         \* a Trajectory: public_key and breadcrumbs
    lastAdd,            \* the last Trajectory::add call and its result
    incoming_tx,        \* incoming_tx of the RelayConnection in AppState is Some
    reader_tx,          \* connections whose reader task holds the router's channel
    lastText,           \* the last text frame a reader task took (observer)
    pending_messages,   \* table pending_messages
    lastSend,           \* the last send_message call and its result (observer)
    mirrored            \* frames of relayOut the relay has passed to the owner's devices

vars == <<wire, origin, opened, routerAlive, handled, threads, messages,
          events, relayOut, saveResult, lastMsg,
          lastOp, savedBefore, storeOps, state, reconnect_attempts, sender,
          readers, writers, queued, generation, pc, build, slept,
          failedRun, lastFault, accepted, written, holder, at, arg, returned,
          trajectory, lastAdd, incoming_tx, reader_tx, lastText,
          pending_messages, lastSend, mirrored>>

StoreObserver == <<lastOp, savedBefore, storeOps>>

QueueObserver == <<accepted, written>>

RelayVars == <<state, reconnect_attempts, sender, readers, writers, queued,
               generation, pc, build, slept, failedRun, lastFault,
               QueueObserver>>

LockVars == <<holder, at>>

PureVars == <<arg, returned>>

TrajectoryVars == <<trajectory, lastAdd>>

HostVars == <<incoming_tx, reader_tx, lastText, pending_messages, lastSend,
              mirrored>>

\* What the router, the store and the relay session leave alone.
Elsewhere == <<LockVars, PureVars, TrajectoryVars, HostVars>>

\* What the life of one envelope leaves alone.
OutsideEnvelope == <<StoreObserver, RelayVars, Elsewhere>>

(***************************************************************************)
(* Bounds                                                                  *)
(***************************************************************************)
MaxTamper == 1          \* fields rewritten in transit in one envelope
MaxTime == 2            \* clock values: timestamps are 1..MaxTime

(***************************************************************************)
(* Option values and character codes                                       *)
(***************************************************************************)
None == <<>>
Some(v) == <<v>>
IsSome(o) == Len(o) = 1
Unwrap(o) == o[1]
UnwrapOr(o, d) == IF IsSome(o) THEN o[1] ELSE d

\* ' ', '\t', '\n', '\r': the white space str::trim removes
IsWhitespace(c) == c \in {32, 9, 10, 13}

(***************************************************************************)
(* Identities (crates/gns-crypto-core/src/identity.rs)                     *)
(***************************************************************************)
Names == {"alice", "bob", "carol"}

\* The router's own identity (IdentityManager::get_identity).
Me == "bob"

\* hex::encode of the 32-byte Ed25519 public key: 64 characters.  Each
\* identity's key is one hex digit repeated ('1', '2', '3').
KeyDigit(i) == CASE i = "alice" -> 49 [] i = "bob" -> 50 [] OTHER -> 51

public_key_hex(i) == [k \in 1..64 |-> KeyDigit(i)]

\* The X25519 secret derived from the Ed25519 secret: one per identity.
x25519_secret(i) == i

\* X25519PublicKey::from(secret): 32 bytes, naming the secret it belongs to.
X25519PublicKey(secret) == [len |-> 32, of |-> secret]

encryption_key_hex(i) == X25519PublicKey(x25519_secret(i))

\* A key-agreement key of the wrong length (hex of 16 bytes).
ShortEncryptionKey == [len |-> 16, of |-> "nobody"]

\* sign_bytes: an Ed25519 signature, well-formed hex of 64 bytes.
sign_bytes(i, message) ==
    [form |-> "sig", signer |-> public_key_hex(i), msg |-> message]

\* Signature fields a creator never produces: text that is not hex, and hex
\* of fewer than 64 bytes.
NotHexSignature == [form |-> "nothex", signer |-> <<>>, msg |-> <<>>]
ShortSignature == [form |-> "short", signer |-> <<>>, msg |-> <<>>]

(***************************************************************************)
(* Signing (crates/gns-crypto-core/src/signing.rs)                         *)
(***************************************************************************)
\* VerifyingKey::from_bytes accepts the keys of the identities.
IsEd25519Point(key) == \E i \in Names : key = public_key_hex(i)

verify_signature(public_key, message, signature) ==
    IF ~IsEd25519Point(public_key)
    THEN [ok |-> FALSE, err |-> "SignatureVerificationFailed", valid |-> FALSE]
    ELSE [ok |-> TRUE, err |-> "",
          valid |-> (signature.signer = public_key /\ signature.msg = message)]

verify_signature_hex(public_key_hex_, message, signature_hex) ==
    IF signature_hex.form = "nothex"
    THEN [ok |-> FALSE, err |-> "InvalidHex", valid |-> FALSE]
    ELSE IF Len(public_key_hex_) # 64
    THEN [ok |-> FALSE, err |-> "InvalidKeyLength", valid |-> FALSE]
    ELSE IF signature_hex.form = "short"
    THEN [ok |-> FALSE, err |-> "InvalidKeyLength", valid |-> FALSE]
    ELSE verify_signature(public_key_hex_, message, signature_hex)

(***************************************************************************)
(* Sealed payload (crates/gns-crypto-core/src/encryption.rs)               *)
(***************************************************************************)
\* X25519: both ends compute the same shared secret.
diffie_hellman(secret, public) == {secret, public.of}

derive_symmetric_key(shared_secret, ephemeral_public, recipient_public) ==
    [ikm |-> shared_secret, e |-> ephemeral_public, r |-> recipient_public]

\* ChaCha20-Poly1305: the ciphertext opens under the same key and nonce only.
AeadEncrypt(key, nonce, plaintext) ==
    [key |-> key, nonce |-> nonce, pt |-> plaintext]

encrypt_for_recipient(plaintext, recipient_x25519_public, eph, nonce) ==
    LET ephemeral_public == X25519PublicKey(eph)
        shared_secret == diffie_hellman(eph, recipient_x25519_public)
        symmetric_key == derive_symmetric_key(shared_secret, ephemeral_public,
                                              recipient_x25519_public)
    IN  [ephemeral_public_key |-> ephemeral_public,
         nonce |-> nonce,
         ciphertext |-> AeadEncrypt(symmetric_key, nonce, plaintext)]

NoPlaintext == [kind |-> "raw", subject |-> None, text |-> ""]

\* Mutant: the key is derived with the two public keys in the other order.
decrypt_from_sender_swapped(our_x25519_secret, encrypted) ==
    LET our_public == X25519PublicKey(our_x25519_secret)
        shared_secret ==
            diffie_hellman(our_x25519_secret, encrypted.ephemeral_public_key)
        symmetric_key ==
            derive_symmetric_key(shared_secret, our_public,
                                 encrypted.ephemeral_public_key)
    IN  IF encrypted.ciphertext.key = symmetric_key
           /\ encrypted.ciphertext.nonce = encrypted.nonce
        THEN [ok |-> TRUE, err |-> "", pt |-> encrypted.ciphertext.pt]
        ELSE [ok |-> FALSE, err |-> "DecryptionFailed", pt |-> NoPlaintext]

\* Mutant: the ciphertext is opened without the authentication check.
decrypt_from_sender_unauthenticated(our_x25519_secret, encrypted) ==
    [ok |-> TRUE, err |-> "", pt |-> encrypted.ciphertext.pt]

decrypt_from_sender(our_x25519_secret, encrypted) ==
    IF encrypted.ephemeral_public_key.len # 32
    THEN [ok |-> FALSE, err |-> "InvalidKeyLength", pt |-> NoPlaintext]
    ELSE IF encrypted.nonce.len # 12
    THEN [ok |-> FALSE, err |-> "InvalidNonceLength", pt |-> NoPlaintext]
    ELSE
      LET our_public == X25519PublicKey(our_x25519_secret)
          shared_secret ==
              diffie_hellman(our_x25519_secret, encrypted.ephemeral_public_key)
          symmetric_key ==
              derive_symmetric_key(shared_secret,
                                   encrypted.ephemeral_public_key, our_public)
      IN  IF encrypted.ciphertext.key = symmetric_key
             /\ encrypted.ciphertext.nonce = encrypted.nonce
          THEN [ok |-> TRUE, err |-> "", pt |-> encrypted.ciphertext.pt]
          ELSE [ok |-> FALSE, err |-> "DecryptionFailed", pt |-> NoPlaintext]

(***************************************************************************)
(* Envelope (crates/gns-crypto-core/src/envelope.rs)                       *)
(***************************************************************************)
NoKey == [len |-> 0, of |-> ""]
NoNonce == [len |-> 0, v |-> ""]

\* PayloadWrapper::Object(EncryptedPayload)
PayloadObject(encrypted) ==
    [form |-> "object",
     ephemeral_public_key |-> encrypted.ephemeral_public_key,
     nonce |-> encrypted.nonce,
     ciphertext |-> encrypted.ciphertext]

\* PayloadWrapper::String(ciphertext_hex): the key and the nonce travel as
\* top-level envelope fields.
PayloadString(encrypted) ==
    [form |-> "string", ephemeral_public_key |-> NoKey, nonce |-> NoNonce,
     ciphertext |-> encrypted.ciphertext]

\* blake3::hash(serde_json::to_vec(&encrypted_payload)): the digest of what
\* the wrapper serialises to, an object of three hex strings or one string.
encrypted_payload_hash(wrapper) == [blake3 |-> wrapper]

\* EnvelopeHeader, as serde_json::to_value renders it (camelCase keys).
EnvelopeHeader(id, from_public_key, to_public_keys, payload_type, timestamp, wrapper) ==
    [id |-> id,
     fromPublicKey |-> from_public_key,
     toPublicKeys |-> to_public_keys,
     payloadType |-> payload_type,
     timestamp |-> timestamp,
     encryptedPayloadHash |-> encrypted_payload_hash(wrapper)]

\* Mutant: the timestamp is left out of the signed bytes.
canonicalize_without_timestamp(header) ==
    << <<"encryptedPayloadHash", header.encryptedPayloadHash>>,
       <<"fromPublicKey", header.fromPublicKey>>,
       <<"id", header.id>>,
       <<"payloadType", header.payloadType>>,
       <<"toPublicKeys", header.toPublicKeys>> >>

\* canonicalize_for_signing: the object's members in the order of their keys,
\* each key with its value; strings and numbers are rendered one to one.
canonicalize_for_signing(header) ==
    << <<"encryptedPayloadHash", header.encryptedPayloadHash>>,
       <<"fromPublicKey", header.fromPublicKey>>,
       <<"id", header.id>>,
       <<"payloadType", header.payloadType>>,
       <<"timestamp", header.timestamp>>,
       <<"toPublicKeys", header.toPublicKeys>> >>

\* The header open_envelope and create_envelope build from an envelope.
HeaderOf(envelope) ==
    EnvelopeHeader(envelope.id, envelope.from_public_key,
                   envelope.to_public_keys, envelope.payload_type,
                   envelope.timestamp, envelope.encrypted_payload)

NoEnvelope ==
    [id |-> "", from_public_key |-> <<>>, from_handle |-> None,
     to_public_keys |-> <<>>, payload_type |-> "", timestamp |-> 0,
     thread_id |-> None, reply_to_id |-> None,
     encrypted_payload |-> [form |-> "string", ephemeral_public_key |-> NoKey,
                            nonce |-> NoNonce,
                            ciphertext |-> [key |-> [ikm |-> {}, e |-> NoKey,
                                                     r |-> NoKey],
                                            nonce |-> NoNonce,
                                            pt |-> NoPlaintext]],
     ephemeral_public_key |-> None, nonce |-> None,
     signature |-> NotHexSignature]

\* create_envelope.  envelope_id, timestamp, eph and nonce are what Uuid::new_v4,
\* Utc::now and OsRng return.
create_envelope(sender_, recipient_public_key_hex, recipient_encryption_key, payload_type, payload, envelope_id, timestamp, eph, nonce) ==
    IF recipient_encryption_key.len # 32
    THEN [ok |-> FALSE, err |-> "InvalidKeyLength", env |-> NoEnvelope]
    ELSE
      LET encrypted == encrypt_for_recipient(payload, recipient_encryption_key,
                                             eph, nonce)
          header == EnvelopeHeader(envelope_id, public_key_hex(sender_),
                                   <<recipient_public_key_hex>>, payload_type,
                                   timestamp, PayloadObject(encrypted))
          header_bytes == canonicalize_for_signing(header)
      IN  [ok |-> TRUE, err |-> "",
           env |-> [id |-> envelope_id,
                    from_public_key |-> public_key_hex(sender_),
                    from_handle |-> None,
                    to_public_keys |-> <<recipient_public_key_hex>>,
                    payload_type |-> payload_type,
                    timestamp |-> timestamp,
                    thread_id |-> None,
                    reply_to_id |-> None,
                    encrypted_payload |-> PayloadObject(encrypted),
                    ephemeral_public_key |-> None,
                    nonce |-> None,
                    signature |-> sign_bytes(sender_, header_bytes)]]

\* create_envelope_with_metadata: sets the three hints, then signs again.
create_envelope_with_metadata(sender_, sender_handle, recipient_public_key_hex, recipient_encryption_key, payload_type, payload, thread_id, reply_to_id, envelope_id, timestamp, eph, nonce) ==
    LET made == create_envelope(sender_, recipient_public_key_hex,
                                recipient_encryption_key, payload_type, payload,
                                envelope_id, timestamp, eph, nonce)
    IN  IF ~made.ok THEN made
        ELSE
          LET envelope == [made.env EXCEPT !.from_handle = sender_handle,
                                           !.thread_id = thread_id,
                                           !.reply_to_id = reply_to_id]
              header_bytes == canonicalize_for_signing(HeaderOf(envelope))
          IN  [ok |-> TRUE, err |-> "",
               env |-> [envelope EXCEPT
                          !.signature = sign_bytes(sender_, header_bytes)]]

NoOpened ==
    [ok |-> FALSE, err |-> "", from_public_key |-> <<>>, from_handle |-> None,
     payload_type |-> "", payload |-> NoPlaintext, signature_valid |-> FALSE,
     envelope_id |-> "", timestamp |-> 0, thread_id |-> None,
     reply_to_id |-> None]

OpenError(e) == [NoOpened EXCEPT !.err = e]

\* The EncryptedPayload open_envelope decrypts: the object as it is, or one
\* rebuilt from the top-level fields of the string form.
SealedOf(envelope) ==
    IF envelope.encrypted_payload.form = "object"
    THEN [ok |-> TRUE,
          ephemeral_public_key |-> envelope.encrypted_payload.ephemeral_public_key,
          nonce |-> envelope.encrypted_payload.nonce,
          ciphertext |-> envelope.encrypted_payload.ciphertext]
    ELSE [ok |-> IsSome(envelope.ephemeral_public_key) /\ IsSome(envelope.nonce),
          ephemeral_public_key |-> UnwrapOr(envelope.ephemeral_public_key, NoKey),
          nonce |-> UnwrapOr(envelope.nonce, NoNonce),
          ciphertext |-> envelope.encrypted_payload.ciphertext]

\* Mutant: the verifier also covers the thread_id hint.
open_envelope_covering_thread(recipient, envelope) ==
    LET header_bytes ==
            Append(canonicalize_for_signing(HeaderOf(envelope)),
                   <<"threadId", envelope.thread_id>>)
        verified == verify_signature_hex(envelope.from_public_key, header_bytes,
                                         envelope.signature)
        sealed == SealedOf(envelope)
        plain == decrypt_from_sender(x25519_secret(recipient), sealed)
    IN  IF ~verified.ok THEN OpenError(verified.err)
        ELSE IF ~sealed.ok THEN OpenError("DecryptionFailed")
        ELSE IF ~plain.ok THEN OpenError(plain.err)
        ELSE [ok |-> TRUE, err |-> "",
              from_public_key |-> envelope.from_public_key,
              from_handle |-> envelope.from_handle,
              payload_type |-> envelope.payload_type,
              payload |-> plain.pt,
              signature_valid |-> verified.valid,
              envelope_id |-> envelope.id,
              timestamp |-> envelope.timestamp,
              thread_id |-> envelope.thread_id,
              reply_to_id |-> envelope.reply_to_id]

\* open_envelope: the signature is verified first and a verification error
\* is returned with `?`; the payload is decrypted after that.
open_envelope(recipient, envelope) ==
    LET header_bytes == canonicalize_for_signing(HeaderOf(envelope))
        verified == verify_signature_hex(envelope.from_public_key, header_bytes,
                                         envelope.signature)
        sealed == SealedOf(envelope)
        plain == decrypt_from_sender(x25519_secret(recipient), sealed)
    IN  IF ~verified.ok THEN OpenError(verified.err)
        ELSE IF ~sealed.ok THEN OpenError("DecryptionFailed")
        ELSE IF ~plain.ok THEN OpenError(plain.err)
        ELSE [ok |-> TRUE, err |-> "",
              from_public_key |-> envelope.from_public_key,
              from_handle |-> envelope.from_handle,
              payload_type |-> envelope.payload_type,
              payload |-> plain.pt,
              signature_valid |-> verified.valid,
              envelope_id |-> envelope.id,
              timestamp |-> envelope.timestamp,
              thread_id |-> envelope.thread_id,
              reply_to_id |-> envelope.reply_to_id]

(***************************************************************************)
(* Thread derivation (src-tauri/src/message_handler.rs)                    *)
(***************************************************************************)
to_lowercase(s) ==
    [k \in 1..Len(s) |-> IF s[k] \in 65..90 THEN s[k] + 32 ELSE s[k]]

RECURSIVE trim_start(_)
trim_start(s) ==
    IF Len(s) > 0 /\ IsWhitespace(s[1]) THEN trim_start(Tail(s)) ELSE s

RECURSIVE trim_end(_)
trim_end(s) ==
    IF Len(s) > 0 /\ IsWhitespace(s[Len(s)])
    THEN trim_end(SubSeq(s, 1, Len(s) - 1))
    ELSE s

trim(s) == trim_end(trim_start(s))

starts_with(s, prefix) ==
    Len(s) >= Len(prefix) /\ SubSeq(s, 1, Len(prefix)) = prefix

\* s[n..]
SliceFrom(s, n) == SubSeq(s, n + 1, Len(s))

\* One pass of the loop body: "re:", "fwd:" or "fw:" is cut off the front.
StripPrefix(s) ==
    IF starts_with(s, <<114, 101, 58>>) THEN trim_start(SliceFrom(s, 3))
    ELSE IF starts_with(s, <<102, 119, 100, 58>>) THEN trim_start(SliceFrom(s, 4))
    ELSE IF starts_with(s, <<102, 119, 58>>) THEN trim_start(SliceFrom(s, 3))
    ELSE s

\* Mutant: one prefix is cut off and the loop is not entered again.
normalize_subject_one_pass(subject) == StripPrefix(to_lowercase(trim(subject)))

\* The loop runs until a pass leaves the length as it was.
RECURSIVE StripLoop(_)
StripLoop(s) ==
    LET t == StripPrefix(s) IN IF Len(t) = Len(s) THEN t ELSE StripLoop(t)

normalize_subject(subject) == StripLoop(to_lowercase(trim(subject)))

\* hex::encode(Sha256(s)): a digest, written as a marker and its preimage.
Sha256Hex(s) == <<-256>> \o s

\* Uuid::new_v4().to_string(): the n-th random id.
UuidString(n) == <<-4, n>>

\* str ordering, as Vec<&str>::sort uses it.
RECURSIVE StrLess(_, _)
StrLess(a, b) ==
    IF Len(b) = 0 THEN FALSE
    ELSE IF Len(a) = 0 THEN TRUE
    ELSE IF a[1] # b[1] THEN a[1] < b[1]
    ELSE StrLess(Tail(a), Tail(b))

\* Mutant: the keys are joined as they come, the own key first.
DirectThreadIdUnsorted(my_pk, other_pk) ==
    <<100, 105, 114, 101, 99, 116, 95>>
        \o SubSeq(my_pk \o <<95>> \o other_pk, 1, 32)

\* format!("direct_{}", &keys.join("_")[..32]) with keys = sorted [my, other]
DirectThreadId(my_pk, other_pk) ==
    LET keys == IF StrLess(other_pk, my_pk) THEN <<other_pk, my_pk>>
                ELSE <<my_pk, other_pk>>
        joined == keys[1] \o <<95>> \o keys[2]
    IN  <<100, 105, 114, 101, 99, 116, 95>> \o SubSeq(joined, 1, 32)

\* serde_json::from_slice(&opened.payload), else {"text": lossy(payload)}
ParsePayload(bytes) ==
    IF bytes.kind = "json" THEN bytes
    ELSE [kind |-> "json", subject |-> None, text |-> bytes.text]

\* payload.get("subject").and_then(|s| s.as_str())
SubjectOf(payload) == payload.subject

\* Mutant: a thread_id on the wire is used before the subject is looked at.
ThreadIdWireFirst(o, payload, my_pk, fresh) ==
    IF IsSome(o.thread_id) THEN Unwrap(o.thread_id)
    ELSE IF o.payload_type = "email" \/ o.payload_type = "gns/email"
    THEN LET s == normalize_subject(UnwrapOr(SubjectOf(payload), <<>>))
         IN  IF Len(s) = 0 THEN fresh ELSE Sha256Hex(s)
    ELSE DirectThreadId(my_pk, o.from_public_key)

\* The thread id handle_envelope stores an opened envelope under.
ThreadIdFor(o, payload, my_pk, fresh) ==
    IF o.payload_type = "email" \/ o.payload_type = "gns/email"
    THEN LET s == normalize_subject(UnwrapOr(SubjectOf(payload), <<>>))
         IN  IF Len(s) = 0 THEN UnwrapOr(o.thread_id, fresh)
             ELSE Sha256Hex(s)
    ELSE IF IsSome(o.thread_id) THEN Unwrap(o.thread_id)
    ELSE DirectThreadId(my_pk, o.from_public_key)

(***************************************************************************)
(* Local store (src-tauri/src/storage/mod.rs).  A table is the set of its  *)
(* rows; db is [threads, messages, ok].                                    *)
(***************************************************************************)
HasThread(ts, id) == \E t \in ts : t.id = id

\* INSERT INTO threads ... ON CONFLICT(id) DO UPDATE SET participant_handle =
\* COALESCE(excluded, threads), subject = COALESCE(threads, excluded)
get_or_create_thread(ts, thread_id, participant_public_key, participant_handle, subject, now) ==
    IF HasThread(ts, thread_id)
    THEN { IF t.id # thread_id THEN t
           ELSE [t EXCEPT
                   !.participant_handle =
                       IF IsSome(participant_handle) THEN participant_handle
                       ELSE t.participant_handle,
                   !.subject = IF IsSome(t.subject) THEN t.subject ELSE subject]
           : t \in ts }
    ELSE ts \cup {[id |-> thread_id,
                   participant_public_key |-> participant_public_key,
                   participant_handle |-> participant_handle,
                   last_message_at |-> now,
                   unread_count |-> 0,
                   is_pinned |-> FALSE, is_muted |-> FALSE,
                   is_archived |-> FALSE,
                   subject |-> subject]}

\* Mutant: every message counts as unread, sent ones too.
update_thread_counting_all(ts, thread_id, timestamp, is_incoming) ==
    { IF t.id # thread_id THEN t
      ELSE [t EXCEPT !.last_message_at = timestamp, !.unread_count = @ + 1]
      : t \in ts }

\* UPDATE threads SET last_message_at = ?[, unread_count = unread_count + 1]
update_thread_for_message(ts, thread_id, timestamp, is_incoming) ==
    { IF t.id # thread_id THEN t
      ELSE [t EXCEPT !.last_message_at = timestamp,
                     !.unread_count = IF is_incoming THEN @ + 1 ELSE @]
      : t \in ts }

\* Mutant: the row is added and the row with the same id stays.
InsertKeepingOld(ms, row) == ms \cup {row}

\* INSERT OR REPLACE INTO messages: a row with the same id goes first.
InsertOrReplace(ms, row) == {m \in ms : m.id # row.id} \cup {row}

MessageRow(id, thread_id, from_public_key, from_handle, payload_type, payload, timestamp, is_outgoing, status, signature_valid, reply_to_id) ==
    [id |-> id, thread_id |-> thread_id, from_public_key |-> from_public_key,
     from_handle |-> from_handle, payload_type |-> payload_type,
     payload_json |-> payload, timestamp |-> timestamp,
     is_outgoing |-> is_outgoing, status |-> status,
     signature_valid |-> signature_valid, reply_to_id |-> reply_to_id,
     is_starred |-> FALSE, forwarded_from_id |-> None]

\* The three statements of a save run one after the other with no
\* transaction: `fail` names the statement that returns an error ("thread",
\* "insert", "update"), or "none".
FailPoints == {"none", "thread", "insert", "update"}

SaveSteps(db, thread_id, participant, handle, subject, row, is_incoming, now, fail) ==
    IF fail = "thread" THEN [db EXCEPT !.ok = FALSE]
    ELSE
      LET t1 == get_or_create_thread(db.threads, thread_id, participant, handle,
                                     subject, now)
      IN  IF fail = "insert" THEN [threads |-> t1, messages |-> db.messages,
                                   ok |-> FALSE]
          ELSE
            LET m1 == InsertOrReplace(db.messages, row)
            IN  IF fail = "update"
                THEN [threads |-> t1, messages |-> m1, ok |-> FALSE]
                ELSE [threads |-> update_thread_for_message(
                                      t1, thread_id, row.timestamp, is_incoming),
                      messages |-> m1, ok |-> TRUE]

save_received_message(db, message_id, thread_id, from_public_key, from_handle, payload_type, payload, timestamp, signature_valid, reply_to_id, now, fail) ==
    SaveSteps(db, thread_id, from_public_key, from_handle, SubjectOf(payload),
              MessageRow(message_id, thread_id, from_public_key, from_handle,
                         payload_type, payload, timestamp, FALSE, "received",
                         signature_valid, reply_to_id),
              TRUE, now, fail)

\* save_sent_message, for an envelope create_envelope made (one recipient,
\* 64-character keys): the thread is the envelope's thread_id or the direct
\* thread of sender and first recipient; the participant is the recipient.
save_sent_message(db, envelope, payload, recipient_handle, reply_to_id, now, fail) ==
    LET payload_json == ParsePayload(payload)
        thread_id ==
            UnwrapOr(envelope.thread_id,
                     DirectThreadId(envelope.from_public_key,
                                    envelope.to_public_keys[1]))
        recipient_pk == envelope.to_public_keys[1]
    IN  SaveSteps(db, thread_id, recipient_pk, recipient_handle,
                  SubjectOf(payload_json),
                  MessageRow(envelope.id, thread_id, envelope.from_public_key,
                             envelope.from_handle, envelope.payload_type,
                             payload_json, envelope.timestamp, TRUE, "sent",
                             TRUE, reply_to_id),
                  FALSE, now, fail)

\* save_browser_sent_message: a message this identity sent from another
\* device, stored in the direct thread of my_pk and to_pk with no handle and
\* no subject
save_browser_sent_message(db, message_id, to_pk, text, timestamp, my_pk, now, fail) ==
    LET keys == IF StrLess(to_pk, my_pk) THEN <<to_pk, my_pk>>
                ELSE <<my_pk, to_pk>>
        thread_id == <<100, 105, 114, 101, 99, 116, 95>>
                       \o SubSeq(keys[1] \o <<95>> \o keys[2], 1, 32)
        payload_json == [kind |-> "json", subject |-> None, text |-> text]
    IN  SaveSteps(db, thread_id, to_pk, None, None,
                  MessageRow(message_id, thread_id, my_pk, None, "text",
                             payload_json, timestamp, TRUE, "sent", TRUE, None),
                  FALSE, now, fail)

\* save_synced_incoming_message (apps/desktop storage): a message another
\* device of this identity received, stored as received from from_pk with a
\* valid signature in the direct thread of my_pk and from_pk
save_synced_incoming_message(db, message_id, from_pk, text, timestamp, from_handle, my_pk, now, fail) ==
    LET thread_id == DirectThreadId(my_pk, from_pk)
        payload_json == [kind |-> "json", subject |-> None, text |-> text]
    IN  SaveSteps(db, thread_id, from_pk, from_handle, None,
                  MessageRow(message_id, thread_id, from_pk, from_handle, "text",
                             payload_json, timestamp, FALSE, "received", TRUE,
                             None),
                  TRUE, now, fail)

\* SELECT .. FROM messages WHERE thread_id = ? ORDER BY timestamp DESC
\* LIMIT ?: every list the query may return (rows with one timestamp come in
\* any order)
get_messages(ms, thread_id, limit) ==
    LET rows == {m \in ms : m.thread_id = thread_id}
        n == IF limit < Cardinality(rows) THEN limit ELSE Cardinality(rows)
    IN  {q \in [1..n -> rows] :
           /\ \A i, j \in 1..n : i < j => /\ q[i] # q[j]
                                           /\ q[i].timestamp >= q[j].timestamp
           /\ \A m \in rows :
                (\A i \in 1..n : q[i] # m)
                  => \A i \in 1..n : q[i].timestamp >= m.timestamp}

\* UPDATE threads SET unread_count = 0 WHERE id = ?
mark_thread_read(ts, thread_id) ==
    { IF t.id = thread_id THEN [t EXCEPT !.unread_count = 0] ELSE t : t \in ts }

\* UPDATE messages SET status = 'read' WHERE id = ?
mark_message_read(ms, message_id) ==
    { IF m.id = message_id THEN [m EXCEPT !.status = "read"] ELSE m : m \in ms }

\* DELETE FROM messages WHERE id = ?
delete_message(ms, message_id) == {m \in ms : m.id # message_id}

\* DELETE FROM messages WHERE thread_id = ?; DELETE FROM threads WHERE id = ?
delete_thread(db, thread_id) ==
    [threads |-> {t \in db.threads : t.id # thread_id},
     messages |-> {m \in db.messages : m.thread_id # thread_id},
     ok |-> TRUE]

(***************************************************************************)
(* Relay frames and the message router                                     *)
(* (apps/desktop/src-tauri/src/network/mod.rs, message_handler.rs)         *)
(***************************************************************************)
\* A text frame, as far as parse_incoming_message reads it: the "type", the
\* welcome's "publicKey", and the envelope object with or without a
\* fromPublicKey member.
\* snakeCase: the object also has an object member "encrypted_payload" and
\* a string member "from_public_key" beside its camelCase members.
\* The members a message_synced, request_sync or message_sent_from_browser
\* frame may carry.
NoBody == [messageId |-> None, conversationWith |-> None,
           decryptedText |-> None, direction |-> None, timestamp |-> None,
           fromHandle |-> None, limit |-> None, to_pk |-> None,
           plaintext |-> None]

NoFrame == [type |-> "none", publicKey |-> None, envelope |-> NoEnvelope,
            hasFrom |-> FALSE, snakeCase |-> FALSE, body |-> NoBody]

EnvelopeFrame(env) == [type |-> "message", publicKey |-> None,
                       envelope |-> env, hasFrom |-> TRUE,
                       snakeCase |-> FALSE, body |-> NoBody]

\* The fields of IncomingMessage::MessageSynced, ::RequestSync and
\* ::MessageSentFromBrowser.
NoSync == [message_id |-> "", conversation_with |-> <<>>,
           decrypted_text |-> "", direction |-> "", timestamp |-> 0,
           from_handle |-> None, limit |-> 0, to_pk |-> <<>>, plaintext |-> ""]

NoMessage == [kind |-> "", public_key |-> <<>>, env |-> NoEnvelope,
              sync |-> NoSync]

\* parse_incoming_message.  A missing string member reads as "", a missing
\* direction as "incoming", a missing limit as 50, a missing timestamp as the
\* clock (MaxTime).
parse_incoming_message(frame) ==
    CASE frame.type = "welcome" ->
           [NoMessage EXCEPT !.kind = "Welcome",
                             !.public_key = UnwrapOr(frame.publicKey, <<>>)]
      [] frame.type = "connection_status" ->
           [NoMessage EXCEPT !.kind = "ConnectionStatus"]
      [] frame.type = "message_synced" ->
           [NoMessage EXCEPT
              !.kind = "MessageSynced",
              !.sync = [NoSync EXCEPT
                 !.message_id = UnwrapOr(frame.body.messageId, ""),
                 !.conversation_with = UnwrapOr(frame.body.conversationWith, <<>>),
                 !.decrypted_text = UnwrapOr(frame.body.decryptedText, ""),
                 !.direction = UnwrapOr(frame.body.direction, "incoming"),
                 !.timestamp = UnwrapOr(frame.body.timestamp, MaxTime),
                 !.from_handle = frame.body.fromHandle]]
      [] frame.type = "request_sync" ->
           [NoMessage EXCEPT
              !.kind = "RequestSync",
              !.sync = [NoSync EXCEPT
                 !.conversation_with = UnwrapOr(frame.body.conversationWith, <<>>),
                 !.limit = UnwrapOr(frame.body.limit, 50)]]
      [] frame.type = "message_sent_from_browser" ->
           [NoMessage EXCEPT
              !.kind = "MessageSentFromBrowser",
              !.sync = [NoSync EXCEPT
                 !.message_id = UnwrapOr(frame.body.messageId, ""),
                 !.to_pk = UnwrapOr(frame.body.to_pk, <<>>),
                 !.plaintext = UnwrapOr(frame.body.plaintext, ""),
                 !.timestamp = UnwrapOr(frame.body.timestamp, MaxTime)]]
      [] frame.type \in {"envelope", "message"} ->
           IF frame.hasFrom
           THEN [NoMessage EXCEPT !.kind = "Envelope", !.env = frame.envelope]
           ELSE [NoMessage EXCEPT !.kind = "Unknown"]
      [] OTHER ->
           IF frame.snakeCase /\ frame.hasFrom
           THEN [NoMessage EXCEPT !.kind = "Envelope", !.env = frame.envelope]
           ELSE [NoMessage EXCEPT !.kind = "Unknown"]

\* &s[..n] panics when s is shorter than n.
SlicePanics(s, n) == Len(s) < n

NewMessageEvent(id, thread_id, o, payload) ==
    [name |-> "new_message", id |-> id, thread_id |-> thread_id,
     from_public_key |-> o.from_public_key, from_handle |-> o.from_handle,
     payload_type |-> o.payload_type, payload |-> payload,
     timestamp |-> o.timestamp, signature_valid |-> o.signature_valid]

MessageSyncedFrame(to, message_id, conversation_with, text, direction, timestamp, from_handle) ==
    [type |-> "message_synced", to |-> to, messageId |-> message_id,
     conversationWith |-> conversation_with, decryptedText |-> text,
     direction |-> direction, timestamp |-> timestamp,
     fromHandle |-> from_handle]

\* The router task panics: it stops and takes no further frame.
RouterPanic ==
    /\ routerAlive' = FALSE
    /\ UNCHANGED <<opened, threads, messages, events, relayOut, saveResult>>

\* Mutant: the host is told of the envelope whether it opens or not, and
\* nothing is stored.
handle_envelope_announcing(envelope, clocks, fails, relays) ==
    /\ opened' = open_envelope(Me, envelope)
    /\ routerAlive' = TRUE
    /\ events' = Append(events, [name |-> "new_message", id |-> envelope.id])
    /\ UNCHANGED <<threads, messages, relayOut, saveResult>>

\* handle_envelope.  now is the clock get_or_create_thread reads, fail the
\* store statement that errors, relayUp whether send_raw finds a sender; the
\* three are drawn from clocks, fails and relays.
handle_envelope(envelope, clocks, fails, relays) ==
    IF SlicePanics(envelope.from_public_key, 16) THEN RouterPanic
    ELSE
      LET o == open_envelope(Me, envelope) IN
      /\ opened' = o
      /\ routerAlive' = TRUE
      /\ IF ~o.ok
         THEN UNCHANGED <<threads, messages, events, relayOut, saveResult>>
         ELSE
           LET payload == ParsePayload(o.payload)
               thread_id == ThreadIdFor(o, payload, public_key_hex(Me),
                                        UuidString(handled + 1))
               synced == MessageSyncedFrame(<<public_key_hex(Me)>>, envelope.id,
                             o.from_public_key, payload.text, "incoming",
                             o.timestamp, o.from_handle)
           IN  /\ \E now \in clocks, fail \in fails :
                    LET db == save_received_message(
                                  [threads |-> threads, messages |-> messages,
                                   ok |-> TRUE],
                                  envelope.id, thread_id, o.from_public_key,
                                  o.from_handle, o.payload_type, payload,
                                  o.timestamp, o.signature_valid, None, now, fail)
                    IN  /\ threads' = db.threads
                        /\ messages' = db.messages
                        /\ saveResult' = IF db.ok THEN "ok" ELSE "err"
               /\ events' = Append(events, NewMessageEvent(envelope.id, thread_id,
                                                           o, payload))
               /\ \E relayUp \in relays :
                    relayOut' = IF relayUp THEN Append(relayOut, synced)
                                ELSE relayOut

\* Mutant: a synced message is stored as outgoing whatever its direction.
handle_message_synced_as_sent(sync, clocks, fails) ==
    /\ routerAlive' = TRUE
    /\ \E now \in clocks, fail \in fails :
         LET db == save_browser_sent_message(
                       [threads |-> threads, messages |-> messages, ok |-> TRUE],
                       sync.message_id, sync.conversation_with,
                       sync.decrypted_text, sync.timestamp, public_key_hex(Me),
                       now, fail)
         IN  /\ threads' = db.threads
             /\ messages' = db.messages
             /\ saveResult' = IF db.ok THEN "ok" ELSE "err"
    /\ events' = events
    /\ UNCHANGED <<opened, relayOut>>

\* Mutant: a synced message is stored and then synced on to the owner's
\* devices again.
handle_message_synced_echoing(sync, clocks, fails) ==
    LET my_pk == public_key_hex(Me)
        db0 == [threads |-> threads, messages |-> messages, ok |-> TRUE]
    IN  /\ routerAlive' = TRUE
        /\ \E now \in clocks, fail \in fails :
             LET db == IF sync.direction = "outgoing"
                       THEN save_browser_sent_message(
                                db0, sync.message_id, sync.conversation_with,
                                sync.decrypted_text, sync.timestamp, my_pk,
                                now, fail)
                       ELSE save_synced_incoming_message(
                                db0, sync.message_id, sync.conversation_with,
                                sync.decrypted_text, sync.timestamp,
                                sync.from_handle, my_pk, now, fail)
             IN  /\ threads' = db.threads
                 /\ messages' = db.messages
                 /\ saveResult' = IF db.ok THEN "ok" ELSE "err"
        /\ events' = Append(events, [name |-> "message_synced",
                                     id |-> sync.message_id])
        /\ relayOut' = Append(relayOut,
                              MessageSyncedFrame(
                                  <<my_pk>>, sync.message_id,
                                  sync.conversation_with, sync.decrypted_text,
                                  sync.direction, sync.timestamp,
                                  sync.from_handle))
        /\ UNCHANGED opened

\* IncomingMessage::MessageSynced: the message is stored as sent when the
\* direction is "outgoing" and as received from conversation_with otherwise;
\* the host gets message_synced and new_message whether the save worked or not
handle_message_synced(sync, clocks, fails) ==
    LET my_pk == public_key_hex(Me)
        db0 == [threads |-> threads, messages |-> messages, ok |-> TRUE]
    IN  /\ routerAlive' = TRUE
        /\ \E now \in clocks, fail \in fails :
             LET db == IF sync.direction = "outgoing"
                       THEN save_browser_sent_message(
                                db0, sync.message_id, sync.conversation_with,
                                sync.decrypted_text, sync.timestamp, my_pk,
                                now, fail)
                       ELSE save_synced_incoming_message(
                                db0, sync.message_id, sync.conversation_with,
                                sync.decrypted_text, sync.timestamp,
                                sync.from_handle, my_pk, now, fail)
             IN  /\ threads' = db.threads
                 /\ messages' = db.messages
                 /\ saveResult' = IF db.ok THEN "ok" ELSE "err"
        /\ events' = events \o
             <<[name |-> "message_synced", id |-> sync.message_id,
                conversationWith |-> sync.conversation_with,
                text |-> sync.decrypted_text, direction |-> sync.direction,
                timestamp |-> sync.timestamp, fromHandle |-> sync.from_handle],
               [name |-> "new_message", id |-> sync.message_id,
                payload_type |-> "email", timestamp |-> sync.timestamp]>>
        /\ UNCHANGED <<opened, relayOut>>

\* IncomingMessage::MessageSentFromBrowser: the message is stored as sent to
\* to_pk, and the host gets message_synced if the save worked.
handle_message_sent_from_browser(sync, clocks, fails) ==
    /\ routerAlive' = TRUE
    /\ \E now \in clocks, fail \in fails :
         LET db == save_browser_sent_message(
                       [threads |-> threads, messages |-> messages, ok |-> TRUE],
                       sync.message_id, sync.to_pk, sync.plaintext,
                       sync.timestamp, public_key_hex(Me), now, fail)
         IN  /\ threads' = db.threads
             /\ messages' = db.messages
             /\ saveResult' = IF db.ok THEN "ok" ELSE "err"
             /\ events' = IF db.ok
                          THEN Append(events,
                                 [name |-> "message_synced",
                                  id |-> sync.message_id, to_pk |-> sync.to_pk,
                                  text |-> sync.plaintext,
                                  timestamp |-> sync.timestamp,
                                  is_outgoing |-> TRUE])
                          ELSE events
    /\ UNCHANGED <<opened, relayOut>>

\* The frames of the rows that carry a text, in the order of the rows.
RECURSIVE SyncFrames(_, _)
SyncFrames(rows, conversation_with) ==
    IF rows = <<>> THEN <<>>
    ELSE LET msg == Head(rows)
             rest == SyncFrames(Tail(rows), conversation_with)
         IN  IF msg.payload_json.text = "" THEN rest
             ELSE <<MessageSyncedFrame(
                        <<public_key_hex(Me)>>, msg.id, conversation_with,
                        msg.payload_json.text,
                        IF msg.is_outgoing THEN "outgoing" ELSE "incoming",
                        msg.timestamp, msg.from_handle)>> \o rest

\* Mutant: the limit of the request is not passed to the query.
handle_request_sync_unlimited(sync, relays) ==
    /\ routerAlive' = TRUE
    /\ \E rows \in get_messages(messages,
                                 DirectThreadId(public_key_hex(Me),
                                                sync.conversation_with),
                                 Cardinality(messages)) :
         relayOut' = relayOut \o SyncFrames(rows, sync.conversation_with)
    /\ UNCHANGED <<opened, threads, messages, events, saveResult>>

\* IncomingMessage::RequestSync: up to limit rows of the direct thread with
\* conversation_with are read and sent one by one; the loop ends at the first
\* send_raw that returns an error.  Each send finds the relay up or down as
\* drawn from relays.
handle_request_sync(sync, relays) ==
    LET thread_id == DirectThreadId(public_key_hex(Me), sync.conversation_with)
    IN  /\ routerAlive' = TRUE
        /\ \E rows \in get_messages(messages, thread_id, sync.limit) :
             LET frames == SyncFrames(rows, sync.conversation_with) IN
             \E sent \in 0..Len(frames) :
                /\ sent > 0 => TRUE \in relays
                /\ sent < Len(frames) => FALSE \in relays
                /\ relayOut' = relayOut \o SubSeq(frames, 1, sent)
        /\ UNCHANGED <<opened, threads, messages, events, saveResult>>

\* IncomingMessage::Welcome: the log line slices the key.
handle_welcome(public_key) ==
    IF SlicePanics(public_key, 16) THEN RouterPanic
    ELSE /\ routerAlive' = TRUE
         /\ UNCHANGED <<opened, threads, messages, events, relayOut, saveResult>>

\* One turn of the `while let Some(msg) = incoming_rx.recv().await` loop.
RouterTurn(clocks, fails, relays) ==
    /\ routerAlive
    /\ wire # NoFrame
    /\ LET msg == parse_incoming_message(wire) IN
       /\ lastMsg' = msg
       /\ CASE msg.kind = "Envelope" ->
                 handle_envelope(msg.env, clocks, fails, relays)
            [] msg.kind = "Welcome" -> handle_welcome(msg.public_key)
            [] msg.kind = "MessageSynced" ->
                 handle_message_synced(msg.sync, clocks, fails)
            [] msg.kind = "RequestSync" -> handle_request_sync(msg.sync, relays)
            [] msg.kind = "MessageSentFromBrowser" ->
                 handle_message_sent_from_browser(msg.sync, clocks, fails)
            [] msg.kind = "ConnectionStatus" ->
                 /\ events' = Append(events, [name |-> "connection_status"])
                 /\ UNCHANGED <<opened, routerAlive, threads, messages, relayOut,
                                saveResult>>
            [] OTHER ->
                 UNCHANGED <<opened, routerAlive, threads, messages, events,
                             relayOut, saveResult>>
    /\ wire' = NoFrame
    /\ handled' = handled + 1
    /\ UNCHANGED <<origin, OutsideEnvelope>>

RouterStep == RouterTurn(1..MaxTime, FailPoints, BOOLEAN)

(***************************************************************************)
(* The relay connection (apps/desktop/src-tauri/src/network/mod.rs)        *)
(***************************************************************************)
MaxAttempts == 62       \* reconnect calls in a row
MaxConnections == 2     \* connections established in one behaviour
MaxQueued == 1          \* frames waiting in one outbound queue

\* ConnectionState
ConnectionState == {"Disconnected", "Connecting", "Connected", "Reconnecting"}

\* A u64 is four 16-bit limbs, lowest first.
U64(n) == <<n % 65536, n \div 65536, 0, 0>>

\* x * m for a u64 x and m < 2^15: the product mod 2^64, and whether it
\* overflowed.
MulSmall(x, m) ==
    LET p1 == x[1] * m
        p2 == x[2] * m + (p1 \div 65536)
        p3 == x[3] * m + (p2 \div 65536)
        p4 == x[4] * m + (p3 \div 65536)
    IN  [v |-> <<p1 % 65536, p2 % 65536, p3 % 65536, p4 % 65536>>,
         overflow |-> p4 \div 65536 > 0]

\* 2u64.pow(exp)
RECURSIVE Pow2(_)
Pow2(exp) ==
    IF exp = 0 THEN [v |-> U64(1), overflow |-> FALSE]
    ELSE LET p == Pow2(exp - 1)
             d == MulSmall(p.v, 2)
         IN  [v |-> d.v, overflow |-> p.overflow \/ d.overflow]

\* std::cmp::min(x, n) for a u64 x and n < 2^16, as a number
MinWith(x, n) ==
    IF x[2] = 0 /\ x[3] = 0 /\ x[4] = 0 /\ x[1] < n THEN x[1] ELSE n

\* std::cmp::min(1000 * 2u64.pow(attempts), 30000): with overflow checks an
\* overflow panics, without them the product wraps.
BackoffDelay(attempts, overflow_checks) ==
    LET power == Pow2(attempts)
        product == MulSmall(power.v, 1000)
    IN  [panic |-> overflow_checks /\ (power.overflow \/ product.overflow),
         ms |-> MinWith(product.v, 30000)]

NoSleep == [n |-> 0, ms |-> 0]
NoFault == [task |-> "", bumped |-> 0, state_after |-> ""]

\* The three mutexes of AppState and the tasks that lock them.
Mutexes == {"identity", "database", "relay"}
Tasks ==
    {"router", "send_message", "mark_thread_read", "get_connection_status",
     "get_breadcrumb_status", "claim_handle", "get_offline_status",
     "save_sent_email_message", "reconnect"}

NoArg == [f |-> ""]
NoResult == [f |-> ""]

\* No mutex is held and no handler runs.
InitLocks ==
    /\ holder = [mutex \in Mutexes |-> "free"]
    /\ at = [t \in Tasks |-> "idle"]

NoBreadcrumb == [h3_index |-> "", timestamp |-> 0, public_key |-> <<>>,
                 signature |-> NotHexSignature, resolution |-> 0]

NoAdd == [ok |-> TRUE, err |-> "", breadcrumb |-> NoBreadcrumb]

\* Trajectory::new(public_key)
NewTrajectory(public_key) == [public_key |-> public_key, breadcrumbs |-> <<>>]

\* The trajectory of Me, with nothing added.
InitTrajectory ==
    /\ trajectory = NewTrajectory(public_key_hex(Me))
    /\ lastAdd = NoAdd

NoText == [connection |-> 0, dispatched |-> FALSE]

NoSend == [n |-> 0, connected |-> FALSE, ok |-> FALSE, err |-> "",
           message_id |-> "", text |-> ""]

\* The host has not started: the RelayConnection of AppState is as
\* RelayConnection::new made it and the tables are as Database::open made
\* them.
InitHost ==
    /\ incoming_tx = FALSE
    /\ reader_tx = {}
    /\ lastText = NoText
    /\ pending_messages = {}
    /\ lastSend = NoSend
    /\ mirrored = 0

\* No function is under study.
InitElsewhere ==
    /\ InitLocks
    /\ InitTrajectory
    /\ InitHost
    /\ arg = NoArg
    /\ returned = NoResult

\* RelayConnection::new
InitRelay ==
    /\ state = "Disconnected"
    /\ reconnect_attempts = 0
    /\ sender = 0
    /\ readers = {}
    /\ writers = {}
    /\ queued = [g \in 1..MaxConnections |-> <<>>]
    /\ generation = 0
    /\ pc = "idle"
    /\ slept = NoSleep
    /\ failedRun = 0
    /\ lastFault = NoFault
    /\ accepted = 0
    /\ written = 0

(***************************************************************************)
(* Spec: the life of one envelope.  A sender creates it, the untrusted     *)
(* relay may rewrite fields of it, and the router of Me handles it.        *)
(***************************************************************************)
Senders == {"alice", "carol"}
Recipients == {"bob", "carol"}
EnvelopeIds == {"id1"}

\* "Hello", "t1", "t2"
sHello == <<72, 101, 108, 108, 111>>
tT1 == <<116, 49>>
tT2 == <<116, 50>>

JsonPayload(subject, text) == [kind |-> "json", subject |-> subject, text |-> text]
RawPayload(text) == [kind |-> "raw", subject |-> None, text |-> text]

SpecPayloads == {RawPayload("hi"), JsonPayload(Some(sHello), "body")}
SpecPayloadTypes == {"text/plain", "email"}

TheNonce == [len |-> 12, v |-> "n1"]

NoOrigin == [made |-> FALSE, sender |-> "", recipient |-> "",
             payload |-> NoPlaintext, env |-> NoEnvelope, tampered |-> {}]

InitRouter ==
    /\ wire = NoFrame
    /\ origin = NoOrigin
    /\ opened = NoOpened
    /\ routerAlive = TRUE
    /\ handled = 0
    /\ threads = {}
    /\ messages = {}
    /\ events = <<>>
    /\ relayOut = <<>>
    /\ saveResult = ""
    /\ lastMsg = NoMessage

RouterVars == <<opened, routerAlive, handled, threads, messages, events,
                relayOut, saveResult, lastMsg>>

Put(made, s, r, payload) ==
    /\ made.ok
    /\ wire' = EnvelopeFrame(made.env)
    /\ origin' = [made |-> TRUE, sender |-> s, recipient |-> r,
                  payload |-> payload, env |-> made.env, tampered |-> {}]
    /\ UNCHANGED <<RouterVars, OutsideEnvelope>>

\* A sender calls create_envelope for a recipient, with the recipient's keys.
Create ==
    /\ wire = NoFrame /\ handled = 0
    /\ \E s \in Senders, r \in Recipients, t \in SpecPayloadTypes,
          p \in SpecPayloads, id \in EnvelopeIds :
          Put(create_envelope(s, public_key_hex(r), encryption_key_hex(r), t, p,
                              id, 1, "e1", TheNonce), s, r, p)

\* A sender calls create_envelope_with_metadata.
CreateWithMetadata ==
    /\ wire = NoFrame /\ handled = 0
    /\ \E s \in Senders, r \in Recipients, t \in SpecPayloadTypes,
          p \in SpecPayloads, id \in EnvelopeIds,
          h \in {None, Some("alice")}, th \in {None, Some(tT1)},
          re \in {None, Some("r1")} :
          Put(create_envelope_with_metadata(s, h, public_key_hex(r),
                  encryption_key_hex(r), t, p, th, re, id, 1, "e1", TheNonce),
              s, r, p)

\* create_envelope refuses a key-agreement key that is not 32 bytes.
CreateRefused ==
    /\ wire = NoFrame /\ handled = 0 /\ ~origin.made
    /\ ~create_envelope("alice", public_key_hex("bob"), ShortEncryptionKey,
                        "text/plain", RawPayload("hi"), "id1", 1, "e1",
                        TheNonce).ok
    /\ UNCHANGED vars

SignedFields == {"timestamp", "id", "payload_type", "to_public_keys"}
HintFields == {"from_handle", "thread_id", "reply_to_id"}
TamperFields == SignedFields \cup HintFields \cup {"signature", "from_public_key"}

\* What the relay may write into a field.
TamperValues(f, env) ==
    CASE f = "timestamp" -> {env.timestamp + 1000}
      [] f = "id" -> {"id1", "id2"}
      [] f = "payload_type" -> {"text/plain", "email", "gns/email"}
      [] f = "to_public_keys" ->
           {<<>>} \cup {<<public_key_hex(i)>> : i \in Names}
      [] f = "from_handle" -> {None, Some("alice"), Some("mallory")}
      [] f = "thread_id" -> {None, Some(tT1), Some(tT2)}
      [] f = "reply_to_id" -> {None, Some("r1"), Some("r2")}
      [] f = "signature" ->
           {NotHexSignature, ShortSignature,
            sign_bytes("carol", env.signature.msg),
            sign_bytes("alice", env.signature.msg),
            [env.signature EXCEPT !.msg = <<>>]}
      [] f = "from_public_key" ->
           {public_key_hex(i) : i \in Names}
             \cup {<<>>, SubSeq(env.from_public_key, 1, 8)}

\* The relay rewrites one field of the envelope in transit.
Tamper ==
    /\ wire # NoFrame /\ origin.made
    /\ Cardinality(origin.tampered) < MaxTamper
    /\ \E f \in TamperFields \ origin.tampered :
         \E v \in TamperValues(f, wire.envelope) :
            /\ v # wire.envelope[f]
            /\ wire' = [wire EXCEPT !.envelope[f] = v]
            /\ origin' = [origin EXCEPT !.tampered = @ \cup {f}]
    /\ UNCHANGED <<RouterVars, OutsideEnvelope>>

NoOp == [op |-> "", id |-> "", thread_id |-> <<>>, timestamp |-> 0,
         ok |-> FALSE, again |-> FALSE]

InitStoreObserver ==
    /\ lastOp = NoOp
    /\ savedBefore = {}
    /\ storeOps = 0

Init == InitRouter /\ InitStoreObserver /\ InitElsewhere /\ InitRelay /\ build = "release"

Next == Create \/ CreateWithMetadata \/ CreateRefused \/ Tamper \/ RouterStep

Spec == Init /\ [][Next]_vars

(***************************************************************************)
(* Claims about the envelope (checked under Spec)                          *)
(***************************************************************************)
\* The router of Me has handled the envelope the sender made.
EnvelopeHandled ==
    origin.made /\ handled = 1 /\ lastMsg.kind = "Envelope"

\* C1: an envelope that S creates for R with R's two public keys and that
\* arrives as created opens at R: open_envelope succeeds and returns the
\* payload S sealed, signature_valid = true and S's public key.
C1_RoundTrip ==
    (EnvelopeHandled /\ origin.tampered = {} /\ origin.recipient = Me)
      => /\ opened.ok
         /\ opened.payload = origin.payload
         /\ opened.signature_valid
         /\ opened.from_public_key = public_key_hex(origin.sender)

C1_Witness ==
    /\ EnvelopeHandled /\ origin.tampered = {} /\ origin.recipient = Me
    /\ opened.ok /\ opened.payload = JsonPayload(Some(sHello), "body")
    /\ origin.sender = "carol"

\* C2: when timestamp, id, payload_type or to_public_keys was changed after
\* signing, open_envelope still returns Ok with the original payload, reports
\* signature_valid = false, and the router saves the message (it is not
\* dropped); the row it stores has signature_valid = false.
C2_TamperedHeader ==
    (EnvelopeHandled /\ origin.recipient = Me
       /\ origin.tampered \cap SignedFields # {}
       /\ origin.tampered \subseteq SignedFields \cup HintFields)
      => /\ opened.ok
         /\ opened.payload = origin.payload
         /\ ~opened.signature_valid
         /\ saveResult \in {"ok", "err"}
         /\ saveResult = "ok" =>
              \E m \in messages :
                 /\ m.id = lastMsg.env.id
                 /\ ~m.signature_valid
                 /\ m.payload_json = ParsePayload(origin.payload)
         /\ Len(events) = 1 /\ ~events[1].signature_valid

C2_Witness ==
    /\ EnvelopeHandled /\ origin.recipient = Me
    /\ origin.tampered = {"timestamp"}
    /\ lastMsg.env.timestamp = origin.env.timestamp + 1000
    /\ saveResult = "ok"
    /\ \E m \in messages : m.id = lastMsg.env.id /\ ~m.signature_valid

SignatureIntact(envelope) ==
    envelope.signature = origin.env.signature

\* C4 (as claimed): whenever the sealed payload of the envelope decrypts under
\* the recipient's key, open_envelope returns Ok with the plaintext, whatever
\* the signature field holds, and reports signature_valid = false for a
\* signature field that was replaced.
C4_NeverFailsOnSignature ==
    (EnvelopeHandled /\ routerAlive
       /\ origin.tampered \subseteq {"signature"}
       /\ decrypt_from_sender(x25519_secret(Me), SealedOf(lastMsg.env)).ok)
      => /\ opened.ok
         /\ opened.payload = origin.payload
         /\ ~SignatureIntact(lastMsg.env) => ~opened.signature_valid

(***************************************************************************)
(* StoreSpec: calls on the message store, in any order                     *)
(***************************************************************************)
MaxCommands == 1        \* send_message calls in one behaviour
MaxRetries == 2         \* reconnect commands in a row that fail
MaxStoreOps == 2        \* store calls in one behaviour; the clock of the
                        \* store reads MaxTime when they are made

MessageIds == {"m1", "m2"}
StoreThreads == {tT1, DirectThreadId(public_key_hex(Me), public_key_hex("alice"))}
ReceivedPayload == JsonPayload(Some(sHello), "body")
SentPayload == JsonPayload(Some(tT1), "hi")

Db == [threads |-> threads, messages |-> messages, ok |-> TRUE]

\* The call is written to the tables and to the observers.
StoreCall(op, id, thread_id, timestamp, result) ==
    /\ threads' = result.threads
    /\ messages' = result.messages
    /\ lastOp' = [op |-> op, id |-> id, thread_id |-> thread_id,
                  timestamp |-> timestamp, ok |-> result.ok,
                  again |-> <<id, thread_id>> \in savedBefore]
    /\ savedBefore' = IF result.ok /\ op \in {"save_received_message", "save_sent_message"}
                      THEN savedBefore \cup {<<id, thread_id>>}
                      ELSE savedBefore
    /\ storeOps' = storeOps + 1
    /\ UNCHANGED <<wire, origin, opened, routerAlive, handled, events,
                   relayOut, saveResult, lastMsg, RelayVars, Elsewhere>>

SaveReceived ==
    /\ storeOps < MaxStoreOps
    /\ \E id \in MessageIds, th \in StoreThreads, timestamp \in 1..MaxTime,
          now \in {MaxTime}, fail \in FailPoints :
         StoreCall("save_received_message", id, th, timestamp,
                   save_received_message(Db, id, th, public_key_hex("alice"),
                                         Some("alice"), "text/plain",
                                         ParsePayload(ReceivedPayload), timestamp,
                                         TRUE, None,
                                         now, fail))

SaveSent ==
    /\ storeOps < MaxStoreOps
    /\ \E id \in MessageIds, th \in {None, Some(tT1)}, timestamp \in 1..MaxTime :
         LET made == create_envelope_with_metadata(
                         Me, Some("bob"), public_key_hex("alice"),
                         encryption_key_hex("alice"), "text/plain", SentPayload,
                         th, None, id, timestamp, "e1", TheNonce)
             thread_id == UnwrapOr(th, DirectThreadId(public_key_hex(Me),
                                                      public_key_hex("alice")))
         IN  /\ made.ok
             /\ \E now \in {MaxTime}, fail \in FailPoints :
                  StoreCall("save_sent_message", id, thread_id, timestamp,
                            save_sent_message(Db, made.env, SentPayload,
                                              Some("ally"), None, now, fail))

\* A message to alice sent from another device of Me is mirrored.
SaveBrowserSent ==
    /\ storeOps < MaxStoreOps
    /\ \E id \in MessageIds, timestamp \in 1..MaxTime, now \in {MaxTime},
          fail \in FailPoints :
         StoreCall("save_browser_sent_message", id,
                   DirectThreadId(public_key_hex(Me), public_key_hex("alice")),
                   timestamp,
                   save_browser_sent_message(Db, id, public_key_hex("alice"),
                                             "hi", timestamp,
                                             public_key_hex(Me), now, fail))

MarkThreadRead ==
    /\ storeOps < MaxStoreOps
    /\ \E th \in StoreThreads :
         StoreCall("mark_thread_read", "", th, 0,
                   [threads |-> mark_thread_read(threads, th),
                    messages |-> messages, ok |-> TRUE])

DeleteThread ==
    /\ storeOps < MaxStoreOps
    /\ \E th \in StoreThreads :
         StoreCall("delete_thread", "", th, 0, delete_thread(Db, th))

MarkMessageRead ==
    /\ storeOps < MaxStoreOps
    /\ \E id \in MessageIds :
         StoreCall("mark_message_read", id, <<>>, 0,
                   [threads |-> threads,
                    messages |-> mark_message_read(messages, id), ok |-> TRUE])

DeleteMessage ==
    /\ storeOps < MaxStoreOps
    /\ \E id \in MessageIds :
         StoreCall("delete_message", id, <<>>, 0,
                   [threads |-> threads,
                    messages |-> delete_message(messages, id), ok |-> TRUE])

StoreInit == InitRouter /\ InitStoreObserver /\ InitElsewhere /\ InitRelay /\ build = "release"

StoreNext ==
    \/ SaveReceived \/ SaveSent \/ SaveBrowserSent
    \/ MarkThreadRead \/ DeleteThread
    \/ MarkMessageRead \/ DeleteMessage

StoreSpec == StoreInit /\ [][StoreNext]_vars

\* The last store call was a save that returned Ok.
SavedOk ==
    lastOp.op \in {"save_received_message", "save_sent_message"} /\ lastOp.ok

\* C5: when a save of a message id into a thread returns Ok and a save of the
\* same id into the same thread returned Ok before, the store holds exactly
\* one message row with that id, exactly one thread row with that thread id,
\* and the thread's last_message_at is the timestamp of the last save.
C5_SaveIdempotent ==
    (SavedOk /\ lastOp.again)
      => /\ Cardinality({m \in messages : m.id = lastOp.id}) = 1
         /\ Cardinality({t \in threads : t.id = lastOp.thread_id}) = 1
         /\ \A t \in threads :
              t.id = lastOp.thread_id => t.last_message_at = lastOp.timestamp
         /\ \A m \in messages : m.id = lastOp.id => m.thread_id = lastOp.thread_id

C5_Witness ==
    /\ SavedOk /\ lastOp.again
    /\ lastOp.op = "save_received_message"
    /\ lastOp.timestamp = 1
    /\ \E m \in messages : m.id = lastOp.id /\ m.timestamp = 1
    /\ \E t \in threads : t.id = lastOp.thread_id /\ t.unread_count = 2
                              /\ t.last_message_at = 1

\* The step is a save that returned Ok.
SaveStep ==
    /\ storeOps' = storeOps + 1
    /\ lastOp'.ok
    /\ lastOp'.op \in {"save_received_message", "save_sent_message",
                       "save_browser_sent_message"}

\* C14 (as claimed): a save into a thread that exists leaves a
\* participant_handle that is set and a subject that is set as they were.
C14_UpsertPreserves ==
    [][SaveStep =>
         \A t \in threads, u \in threads' :
             u.id = t.id
               => /\ IsSome(t.participant_handle)
                       => u.participant_handle = t.participant_handle
                  /\ IsSome(t.subject) => u.subject = t.subject]_vars

\* unread_count of the thread in table ts; 0 when there is no such thread.
UnreadOf(ts, id) ==
    IF HasThread(ts, id) THEN (CHOOSE t \in ts : t.id = id).unread_count ELSE 0

\* The step is the store call op and it returned Ok.
StoreStep(op) ==
    /\ storeOps' = storeOps + 1
    /\ lastOp'.op = op
    /\ lastOp'.ok

\* The thread the step worked on has the step's timestamp as last_message_at.
StampedByStep ==
    \E t \in threads' :
        t.id = lastOp'.thread_id /\ t.last_message_at = lastOp'.timestamp

MaxFrames == 2          \* frames the relay delivers in one behaviour

sHi == <<72, 105>>                      \* "Hi"
sReHI == <<82, 101, 58, 32, 72, 73>>    \* "Re: HI"
sYo == <<89, 111>>                      \* "Yo"
sRe == <<82, 101, 58>>                  \* "Re:"

FrameIds == <<"id1", "id2", "id3", "id4">>
FrameId(n) == FrameIds[((n - 1) % Len(FrameIds)) + 1]

WireThreads == {None, Some(tT1)}

\* An envelope alice or carol makes, as the relay frames it.
Letter(s, r, payload_type, payload, thread_id, n) ==
    EnvelopeFrame(create_envelope_with_metadata(
                      s, Some(s), public_key_hex(r), encryption_key_hex(r),
                      payload_type, payload, thread_id, None, FrameId(n), 1,
                      "e1", TheNonce).env)

EmailFrames(n) ==
    {Letter("alice", Me, "email", JsonPayload(subject, "body"), th, n) :
        subject \in {None, Some(sRe), Some(sHi), Some(sReHI), Some(sYo)},
        th \in WireThreads}
    \cup {Letter("carol", Me, "gns/email", JsonPayload(Some(sHi), "body"), None, n)}

ChatFrames(n) ==
    {Letter("alice", Me, "text/plain", JsonPayload(Some(sHi), "chat"), th, n) :
        th \in WireThreads}
    \cup {Letter("carol", Me, "text/plain", RawPayload("hi"), None, n)}

\* Frames the router cannot use: an envelope for somebody else, one with a
\* signature that is not hex, one whose fromPublicKey is empty, short or
\* missing, and frames of other types.
OddFrames(n) ==
    LET good == Letter("alice", Me, "text/plain", RawPayload("hi"), None, n)
        short == SubSeq(public_key_hex("alice"), 1, 8)
    IN  {Letter("alice", "carol", "text/plain", RawPayload("hi"), None, n),
         [good EXCEPT !.envelope.signature = NotHexSignature],
         [good EXCEPT !.envelope.from_public_key = <<>>],
         [good EXCEPT !.envelope.from_public_key = short],
         [good EXCEPT !.hasFrom = FALSE],
         [NoFrame EXCEPT !.type = "welcome"],
         [NoFrame EXCEPT !.type = "welcome", !.publicKey = Some(short)],
         [NoFrame EXCEPT !.type = "welcome",
                         !.publicKey = Some(public_key_hex(Me))],
         [NoFrame EXCEPT !.type = "connection_status"],
         [NoFrame EXCEPT !.type = "ping"]}

\* An envelope sent without a "type" member: in the wire format of
\* GnsEnvelope (camelCase members), and the same with the two snake_case
\* members added.
BareFrames(n) ==
    LET good == Letter("alice", Me, "text/plain", RawPayload("hi"), None, n)
    IN  {[good EXCEPT !.type = ""],
         [good EXCEPT !.type = "", !.snakeCase = TRUE]}

\* The reader task passes the next frame to the router's channel.
Receive ==
    /\ wire = NoFrame
    /\ handled < MaxFrames
    /\ \E f \in EmailFrames(handled + 1) \cup ChatFrames(handled + 1)
                  \cup OddFrames(handled + 1) \cup BareFrames(handled + 1) :
         wire' = f
    /\ UNCHANGED <<origin, RouterVars, OutsideEnvelope>>

\* The router takes the frame; the relay it syncs to is up.
Route == RouterTurn({MaxTime}, FailPoints, {TRUE})

RouterInit == InitRouter /\ InitStoreObserver /\ InitElsewhere /\ InitRelay /\ build = "release"

RouterNext == Receive \/ Route

RouterSpec == RouterInit /\ [][RouterNext]_vars

IsEmail(payload_type) == payload_type \in {"email", "gns/email"}

\* The new_message events, which carry the thread id the router derived.
Delivered == {i \in 1..Len(events) : events[i].name = "new_message"}

NormalizedSubjectOf(e) ==
    normalize_subject(UnwrapOr(e.payload.subject, <<>>))

\* The router has just opened an envelope and derived its thread id.
JustDelivered ==
    /\ lastMsg.kind = "Envelope" /\ wire = NoFrame /\ opened.ok
    /\ Len(events) > 0
    /\ events[Len(events)].name = "new_message"
    /\ events[Len(events)].id = lastMsg.env.id

\* Emails i and j are threaded together exactly when their subjects
\* normalize to the same string.
SameSubjectSameThread(i, j) ==
    (NormalizedSubjectOf(events[i]) = NormalizedSubjectOf(events[j]))
       <=> (events[i].thread_id = events[j].thread_id)

EmailPairs ==
    {<<i, j>> \in Delivered \X Delivered :
        i < j /\ IsEmail(events[i].payload_type) /\ IsEmail(events[j].payload_type)}

\* The four rules, for the envelope the router has just delivered.
ThreadRules ==
    JustDelivered =>
      LET e == events[Len(events)]
          ns == NormalizedSubjectOf(e)
          earlier == {events[i].thread_id : i \in Delivered \ {Len(events)}}
      IN  /\ (IsEmail(opened.payload_type) /\ Len(ns) > 0)
                => e.thread_id = Sha256Hex(ns)
          /\ (IsEmail(opened.payload_type) /\ Len(ns) = 0 /\ IsSome(opened.thread_id))
                => e.thread_id = Unwrap(opened.thread_id)
          /\ (IsEmail(opened.payload_type) /\ Len(ns) = 0 /\ ~IsSome(opened.thread_id))
                => /\ e.thread_id = UuidString(handled)
                   /\ e.thread_id \notin earlier
          /\ (~IsEmail(opened.payload_type) /\ IsSome(opened.thread_id))
                => e.thread_id = Unwrap(opened.thread_id)
          /\ (~IsEmail(opened.payload_type) /\ ~IsSome(opened.thread_id))
                => e.thread_id = DirectThreadId(public_key_hex(Me),
                                                opened.from_public_key)
          /\ saveResult = "ok" =>
                \E m \in messages : m.id = e.id /\ m.thread_id = e.thread_id

\* C6 (as claimed): the four rules, and any two emails are in the same thread
\* exactly when their subjects normalize to the same string.
C6_AsClaimed ==
    /\ ThreadRules
    /\ \A pr \in EmailPairs : SameSubjectSameThread(pr[1], pr[2])

\* C6 (amended): the four rules, and any two emails whose normalized subjects
\* are not empty are in the same thread exactly when their subjects normalize
\* to the same string.
C6_ThreadDerivation ==
    /\ ThreadRules
    /\ \A pr \in EmailPairs :
         (Len(NormalizedSubjectOf(events[pr[1]])) > 0
            /\ Len(NormalizedSubjectOf(events[pr[2]])) > 0)
           => SameSubjectSameThread(pr[1], pr[2])

C6_Witness ==
    /\ JustDelivered
    /\ Len(events) = 2
    /\ events[1].name = "new_message"
    /\ events[1].payload.subject = Some(sHi)
    /\ events[2].payload.subject = Some(sReHI)
    /\ IsEmail(events[1].payload_type) /\ IsEmail(events[2].payload_type)
    /\ IsSome(opened.thread_id)
    /\ events[1].thread_id = events[2].thread_id
    /\ events[2].thread_id = Sha256Hex(<<104, 105>>)

\* The frame holds an envelope that open_envelope fails to decrypt.
FailsToDecrypt(frame) ==
    LET msg == parse_incoming_message(frame) IN
    /\ msg.kind = "Envelope"
    /\ open_envelope(Me, msg.env).err = "DecryptionFailed"

\* C18: when the router takes an envelope that fails to decrypt, the tables,
\* the host events and the frames sent on the relay stay as they were, and
\* the router lives on, ready for the next frame.
C18_DropUndecryptable ==
    [][(handled' = handled + 1 /\ FailsToDecrypt(wire))
         => /\ UNCHANGED <<threads, messages, events, relayOut>>
            /\ routerAlive'
            /\ wire' = NoFrame]_vars

\* The second frame failed to decrypt and the row of the first is still there.
C18_Witness ==
    /\ handled = 2
    /\ lastMsg.kind = "Envelope"
    /\ opened.err = "DecryptionFailed"
    /\ routerAlive
    /\ Cardinality(messages) = 1
    /\ Len(events) = 1

\* C7 (as claimed): whatever frame the router has handled, the router task
\* is still running.
C7_RouterSurvives == routerAlive

(***************************************************************************)
(* RelaySpec: the host calls connect, disconnect, reconnect and send_raw   *)
(* one at a time (each holds the relay mutex), and the reader and writer   *)
(* tasks of every connection run beside it.                                *)
(***************************************************************************)
OutsideQueue == <<wire, origin, opened, routerAlive, handled, threads,
                  messages, events, relayOut, saveResult, lastMsg,
                  StoreObserver, Elsewhere>>

OutsideRelay == <<OutsideQueue, QueueObserver>>

\* No host call is under way: the last returned Ok ("idle"), returned an
\* error ("failed") or panicked ("panicked").
HostIdle == pc \in {"idle", "failed", "panicked"}

\* connect, up to the await on connect_async
ConnectCall ==
    /\ HostIdle
    /\ state' = "Connecting"
    /\ pc' = "dialing"
    /\ UNCHANGED <<reconnect_attempts, sender, readers, writers, queued,
                   generation, build, slept, failedRun, lastFault, OutsideRelay>>

\* connect_async returned an error: connect returns it
DialFails ==
    /\ pc = "dialing"
    /\ pc' = "failed"
    /\ slept' = NoSleep
    /\ UNCHANGED <<state, reconnect_attempts, sender, readers, writers, queued,
                   generation, build, failedRun, lastFault, OutsideRelay>>

\* connect_async returned a stream: the sender is installed, the state and
\* the counter are written and the two tasks are spawned
DialSucceeds ==
    /\ pc = "dialing"
    /\ generation < MaxConnections
    /\ generation' = generation + 1
    /\ sender' = generation + 1
    /\ state' = "Connected"
    /\ reconnect_attempts' = 0
    /\ readers' = readers \cup {generation + 1}
    /\ writers' = writers \cup {generation + 1}
    /\ pc' = "idle"
    /\ slept' = NoSleep
    /\ failedRun' = 0
    /\ UNCHANGED <<queued, build, lastFault, OutsideRelay>>

\* disconnect
DisconnectCall ==
    /\ HostIdle
    /\ state' = "Disconnected"
    /\ sender' = 0
    /\ pc' = "idle"
    /\ UNCHANGED <<reconnect_attempts, readers, writers, queued, generation,
                   build, slept, failedRun, lastFault, OutsideRelay>>

\* reconnect: the counter is bumped and the state set to Reconnecting
ReconnectCall ==
    /\ HostIdle
    /\ reconnect_attempts < MaxAttempts
    /\ reconnect_attempts' = reconnect_attempts + 1
    /\ state' = "Reconnecting"
    /\ failedRun' = failedRun + 1
    /\ pc' = "reconnect_marked"
    /\ UNCHANGED <<sender, readers, writers, queued, generation, build, slept,
                   lastFault, OutsideRelay>>

\* reconnect: self.disconnect().await
ReconnectDisconnect ==
    /\ pc = "reconnect_marked"
    /\ state' = "Disconnected"
    /\ sender' = 0
    /\ pc' = "reconnect_backoff"
    /\ UNCHANGED <<reconnect_attempts, readers, writers, queued, generation,
                   build, slept, failedRun, lastFault, OutsideRelay>>

\* reconnect: the delay is computed and slept; a panic ends the call
ReconnectSleep ==
    /\ pc = "reconnect_backoff"
    /\ LET delay == BackoffDelay(reconnect_attempts, build = "debug") IN
       IF delay.panic
       THEN /\ pc' = "panicked"
            /\ UNCHANGED slept
       ELSE /\ pc' = "reconnect_slept"
            /\ slept' = [n |-> failedRun, ms |-> delay.ms]
    /\ UNCHANGED <<state, reconnect_attempts, sender, readers, writers, queued,
                   generation, build, failedRun, lastFault, OutsideRelay>>

\* reconnect: self.connect(public_key), up to the await on connect_async
ReconnectConnect ==
    /\ pc = "reconnect_slept"
    /\ state' = "Connecting"
    /\ pc' = "dialing"
    /\ UNCHANGED <<reconnect_attempts, sender, readers, writers, queued,
                   generation, build, slept, failedRun, lastFault, OutsideRelay>>

\* send_raw / send_envelope, tx.send(frame).await: with a sender installed
\* whose receiver lives the frame is queued, or the caller starts to wait
\* when the queue holds capacity frames; else the call returns NotConnected
SendFrame(capacity, frame) ==
    /\ HostIdle
    /\ IF sender # 0 /\ sender \in writers
       THEN IF Len(queued[sender]) < capacity
            THEN /\ queued' = [queued EXCEPT ![sender] = Append(@, frame)]
                 /\ pc' = "idle"
            ELSE /\ pc' = "send_blocked"
                 /\ UNCHANGED queued
       ELSE /\ pc' = "failed"
            /\ UNCHANGED queued
    /\ UNCHANGED <<state, reconnect_attempts, sender, readers, writers,
                   generation, build, slept, failedRun, lastFault, written,
                   OutsideQueue>>

\* tx.send(frame).await of a waiting caller completes: the frame is queued
\* once there is room, or the call returns NotConnected once the receiver
\* is gone
SendResume(capacity, frame) ==
    /\ pc = "send_blocked"
    /\ IF sender \in writers
       THEN /\ Len(queued[sender]) < capacity
            /\ queued' = [queued EXCEPT ![sender] = Append(@, frame)]
            /\ pc' = "idle"
       ELSE /\ pc' = "failed"
            /\ UNCHANGED queued
    /\ UNCHANGED <<state, reconnect_attempts, sender, readers, writers,
                   generation, build, slept, failedRun, lastFault, written,
                   OutsideQueue>>

\* The frames of the relay session's runs carry no number.
Send ==
    /\ SendFrame(MaxQueued, 0)
    /\ UNCHANGED accepted

SendUnblocked ==
    /\ SendResume(MaxQueued, 0)
    /\ UNCHANGED accepted

\* Mutant: the task leaves its loop and the state stays as it was.
TaskFaultSilent(task) ==
    /\ UNCHANGED state
    /\ lastFault' = [task |-> task,
                     bumped |-> reconnect_attempts' - reconnect_attempts,
                     state_after |-> state']

\* A task sets Disconnected and leaves its loop.
TaskFault(task) ==
    /\ state' = "Disconnected"
    /\ lastFault' = [task |-> task,
                     bumped |-> reconnect_attempts' - reconnect_attempts,
                     state_after |-> state']

\* reader task: read.next() yields Err(e)
ReaderError ==
    /\ \E g \in readers : readers' = readers \ {g}
    /\ UNCHANGED reconnect_attempts
    /\ TaskFault("reader")
    /\ UNCHANGED <<sender, writers, queued, generation, pc, build, slept,
                   failedRun, OutsideRelay>>

\* reader task: the server sends Close
ReaderClose ==
    /\ \E g \in readers : readers' = readers \ {g}
    /\ state' = "Disconnected"
    /\ UNCHANGED <<reconnect_attempts, sender, writers, queued, generation, pc,
                   build, slept, failedRun, lastFault, OutsideRelay>>

\* reader task: the stream ends
ReaderEnd ==
    /\ \E g \in readers : readers' = readers \ {g}
    /\ UNCHANGED <<state, reconnect_attempts, sender, writers, queued,
                   generation, pc, build, slept, failedRun, lastFault,
                   OutsideRelay>>

\* Mutant: the writer takes the newest frame of the queue.
WriterWriteNewest ==
    /\ \E g \in writers :
         /\ queued[g] # <<>>
         /\ written' = queued[g][Len(queued[g])]
         /\ queued' = [queued EXCEPT ![g] = SubSeq(@, 1, Len(@) - 1)]
    /\ UNCHANGED <<state, reconnect_attempts, sender, readers, writers,
                   generation, pc, build, slept, failedRun, lastFault,
                   accepted, OutsideQueue>>

\* writer task: a frame is taken from the queue and written
WriterWrite ==
    /\ \E g \in writers :
         /\ queued[g] # <<>>
         /\ written' = Head(queued[g])
         /\ queued' = [queued EXCEPT ![g] = Tail(@)]
    /\ UNCHANGED <<state, reconnect_attempts, sender, readers, writers,
                   generation, pc, build, slept, failedRun, lastFault,
                   accepted, OutsideQueue>>

\* writer task: the write fails; the queue goes with the receiver
WriterError ==
    /\ \E g \in writers :
         /\ queued[g] # <<>>
         /\ writers' = writers \ {g}
         /\ queued' = [queued EXCEPT ![g] = <<>>]
    /\ UNCHANGED reconnect_attempts
    /\ TaskFault("writer")
    /\ UNCHANGED <<sender, readers, generation, pc, build, slept, failedRun,
                   OutsideRelay>>

\* writer task: rx.recv() yields None once the sender is gone
WriterEnd ==
    /\ \E g \in writers :
         /\ queued[g] = <<>> /\ sender # g
         /\ writers' = writers \ {g}
    /\ UNCHANGED <<state, reconnect_attempts, sender, readers, queued,
                   generation, pc, build, slept, failedRun, lastFault,
                   OutsideRelay>>

RelayInit ==
    /\ InitRouter /\ InitStoreObserver /\ InitElsewhere /\ InitRelay
    /\ build \in {"debug", "release"}

RelayNext ==
    \/ ConnectCall \/ DialFails \/ DialSucceeds \/ DisconnectCall
    \/ ReconnectCall \/ ReconnectDisconnect \/ ReconnectSleep
    \/ ReconnectConnect \/ Send \/ SendUnblocked
    \/ ReaderError \/ ReaderClose \/ ReaderEnd
    \/ WriterWrite \/ WriterError \/ WriterEnd

RelaySpec == RelayInit /\ [][RelayNext]_vars

\* The runtime keeps polling a task that can go on: a writer with a frame
\* to write writes it or fails, a writer whose channel is closed and empty
\* ends, a caller waiting for room goes on, connect_async returns, and a
\* reconnect call runs to its end.  Whether the host calls again and what
\* an open socket delivers is up to them.
RelayFairness ==
    /\ WF_vars(WriterWrite \/ WriterError)
    /\ WF_vars(WriterEnd)
    /\ WF_vars(SendUnblocked)
    /\ WF_vars(DialFails \/ DialSucceeds)
    /\ WF_vars(ReconnectDisconnect \/ ReconnectSleep \/ ReconnectConnect)

RelayLiveSpec == RelaySpec /\ RelayFairness

\* The transitions of the state machine the claim names.
AllowedTransitions ==
    {<<"Disconnected", "Connecting">>, <<"Connecting", "Connected">>,
     <<"Connected", "Disconnected">>, <<"Connected", "Reconnecting">>,
     <<"Reconnecting", "Connecting">>}

\* C8 (as claimed): every change of the connection state is one of
\* Disconnected->Connecting, Connecting->Connected, Connected->Disconnected,
\* Connected->Reconnecting, Reconnecting->Connecting.
C8_StateMachine ==
    [][state' # state => <<state, state'>> \in AllowedTransitions]_vars

\* min(1000 * 2^n, 30000) over the integers
IdealBackoff(n) == IF n >= 5 THEN 30000 ELSE 1000 * (2 ^ n)

\* C9 (as claimed): the n-th reconnect call in a row without a successful
\* connect in between sleeps min(1000 * 2^n, 30000) ms before it connects (no
\* reconnect call ends before its sleep), and after a successful connect the
\* counter is 0.
C9_Backoff ==
    /\ pc = "reconnect_slept" => slept.ms = IdealBackoff(slept.n)
    /\ pc # "panicked"
    /\ (pc = "idle" /\ state = "Connected") => reconnect_attempts = 0

\* C10 (as claimed): a socket error in the reader or the writer task sets
\* Disconnected and adds one to the reconnect counter.
C10_AsClaimed ==
    lastFault # NoFault
      => /\ lastFault.state_after = "Disconnected"
         /\ lastFault.bumped = 1

\* C10 (amended): a socket error in the reader or the writer task sets
\* Disconnected and leaves the reconnect counter as it was.
C10_TaskFault ==
    lastFault # NoFault
      => /\ lastFault.state_after = "Disconnected"
         /\ lastFault.bumped = 0

C10_Witness ==
    /\ lastFault.task = "writer"
    /\ lastFault.bumped = 0
    /\ state = "Disconnected"
    /\ reconnect_attempts = 0
    /\ generation = 1

(***************************************************************************)
(* QueueSpec: the outbound queue of one established connection.  The host  *)
(* hands numbered frames to send_raw / send_envelope and the writer task   *)
(* drains the channel, as in RelaySpec.                                    *)
(***************************************************************************)
\* mpsc::channel::<String>(100)
ChannelCapacity == 100
MaxSends == 102         \* frames the host hands to send

\* The session after connect has returned Ok.
QueueInit ==
    /\ InitRouter /\ InitStoreObserver /\ InitElsewhere
    /\ build = "release"
    /\ state = "Connected"
    /\ reconnect_attempts = 0
    /\ sender = 1
    /\ readers = {1}
    /\ writers = {1}
    /\ queued = [g \in 1..MaxConnections |-> <<>>]
    /\ generation = 1
    /\ pc = "idle"
    /\ slept = NoSleep
    /\ failedRun = 0
    /\ lastFault = NoFault
    /\ accepted = 0
    /\ written = 0

\* The host sends the frame numbered accepted + 1.
SendNumbered ==
    /\ accepted < MaxSends
    /\ SendFrame(ChannelCapacity, accepted + 1)
    /\ accepted' = IF queued' # queued THEN accepted + 1 ELSE accepted

SendNumberedUnblocked ==
    /\ SendResume(ChannelCapacity, accepted + 1)
    /\ accepted' = IF queued' # queued THEN accepted + 1 ELSE accepted

QueueNext == SendNumbered \/ SendNumberedUnblocked \/ WriterWrite \/ WriterError

QueueSpec == QueueInit /\ [][QueueNext]_vars

\* The queue of the installed sender.
SenderQueue == queued[sender]

\* The queue never holds more than its capacity, which is at least 64, and it
\* holds the accepted frames that were not written, oldest first.
QueueShape ==
    /\ ChannelCapacity >= 64
    /\ Len(SenderQueue) <= ChannelCapacity
    /\ \A i \in 1..Len(SenderQueue) :
         SenderQueue[i] = accepted - Len(SenderQueue) + i

QueueSteps ==
    \* frames reach the socket in the order in which they were accepted
    /\ written' # written => written' = written + 1
    \* a caller starts to wait only at a full queue, and nothing is queued
    /\ pc # "send_blocked" /\ pc' = "send_blocked"
         => Len(SenderQueue) = ChannelCapacity /\ UNCHANGED <<queued, accepted>>
    \* the full queue of a live writer makes no call fail and takes no frame
    /\ Len(SenderQueue) = ChannelCapacity /\ sender \in writers
         => pc' # "failed" /\ accepted' = accepted
    \* the waiting caller's frame is queued, behind the others, once there is room
    /\ pc = "send_blocked" /\ pc' = "idle"
         => /\ Len(SenderQueue) < ChannelCapacity
            /\ queued'[sender] = Append(SenderQueue, accepted + 1)
    \* the wait ends otherwise only when the writer task has ended
    /\ pc = "send_blocked" /\ pc' = "failed" => sender \notin writers

\* C12 (amended): the outbound queue has capacity 100; at a full queue the
\* caller of send_envelope / send_raw waits, and its frame is queued when the
\* writer has made room, or the call returns NotConnected when the writer
\* task has ended meanwhile.  The writer writes frames in the order in which
\* they were accepted.
C12_BoundedQueue == []QueueShape /\ [][QueueSteps]_vars

\* The queue is full and a caller waits.
C12_Witness ==
    /\ pc = "send_blocked"
    /\ Len(SenderQueue) = ChannelCapacity
    /\ written > 0

\* C12 (as claimed): a caller that waits at the full queue is not rejected.
C12_AsClaimed == [][pc = "send_blocked" => pc' # "failed"]_vars

(***************************************************************************)
(* LockSpec: the mutexes of AppState (identity, database, relay) as the    *)
(* router task and the host commands take and release them.  A step is the *)
(* code between two awaits; what the calls write to the tables and to the  *)
(* relay is modelled in RouterSpec, StoreSpec and RelaySpec.               *)
(***************************************************************************)
OutsideLocks == <<wire, origin, RouterVars, StoreObserver, RelayVars, PureVars,
                  TrajectoryVars, HostVars>>

\* mutex.lock().await returns to task t, which waited at from
Acquire(t, mutex, from, to) ==
    /\ at[t] = from
    /\ holder[mutex] = "free"
    /\ holder' = [holder EXCEPT ![mutex] = t]
    /\ at' = [at EXCEPT ![t] = to]
    /\ UNCHANGED OutsideLocks

\* Task t runs from one await to the next; the guards in released go out of
\* scope on the way.
Advance(t, from, to, released) ==
    /\ at[t] = from
    /\ at' = [at EXCEPT ![t] = to]
    /\ holder' = [mutex \in Mutexes |->
                    IF mutex \in released THEN "free" ELSE holder[mutex]]
    /\ UNCHANGED OutsideLocks

\* handle_envelope: identity_guard lives to the end of the function
\* (gns_identity borrows from it and is read when the sync frame is built)
HandleEnvelopeLocks ==
    \/ Advance("router", "idle", "env_lock_identity", {})
    \/ Acquire("router", "identity", "env_lock_identity", "env_open")
    \/ Advance("router", "env_open", "idle", {"identity"})
    \/ Advance("router", "env_open", "env_lock_db", {})
    \/ Acquire("router", "database", "env_lock_db", "env_save")
    \/ Advance("router", "env_save", "env_lock_relay", {"database"})
    \/ Acquire("router", "relay", "env_lock_relay", "env_send")
    \/ Advance("router", "env_send", "idle", {"relay", "identity"})

\* the router's RequestDecryption arm
RequestDecryptionLocks ==
    \/ Advance("router", "idle", "dec_lock_identity", {})
    \/ Acquire("router", "identity", "dec_lock_identity", "dec_lock_relay")
    \/ Acquire("router", "relay", "dec_lock_relay", "dec_lock_db")
    \/ Acquire("router", "database", "dec_lock_db", "dec_read")
    \/ Advance("router", "dec_read", "dec_send", {"database"})
    \/ Advance("router", "dec_send", "idle", {"relay", "identity"})

\* the send_message command: identity_mgr, relay and db are dropped when
\* the function returns
SendMessageLocks ==
    \/ Advance("send_message", "idle", "snd_lock_identity", {})
    \/ Acquire("send_message", "identity", "snd_lock_identity", "snd_resolve")
    \/ Advance("send_message", "snd_resolve", "idle", {"identity"})
    \/ Advance("send_message", "snd_resolve", "snd_lock_relay", {})
    \/ Acquire("send_message", "relay", "snd_lock_relay", "snd_send")
    \/ Advance("send_message", "snd_send", "idle", {"relay", "identity"})
    \/ Advance("send_message", "snd_send", "snd_lock_db", {})
    \/ Acquire("send_message", "database", "snd_lock_db", "snd_save")
    \/ Advance("send_message", "snd_save", "idle",
               {"database", "relay", "identity"})

\* the mark_thread_read command
MarkThreadReadLocks ==
    \/ Advance("mark_thread_read", "idle", "ui_lock_db", {})
    \/ Acquire("mark_thread_read", "database", "ui_lock_db", "ui_mark")
    \/ Advance("mark_thread_read", "ui_mark", "idle", {"database"})

\* the get_connection_status command
GetConnectionStatusLocks ==
    \/ Advance("get_connection_status", "idle", "st_lock_relay", {})
    \/ Acquire("get_connection_status", "relay", "st_lock_relay", "st_read")
    \/ Advance("get_connection_status", "st_read", "idle", {"relay"})

\* the get_breadcrumb_status command: db is held when identity is locked
GetBreadcrumbStatusLocks ==
    \/ Advance("get_breadcrumb_status", "idle", "bs_lock_db", {})
    \/ Acquire("get_breadcrumb_status", "database", "bs_lock_db",
               "bs_lock_identity")
    \/ Acquire("get_breadcrumb_status", "identity", "bs_lock_identity",
               "bs_read")
    \/ Advance("get_breadcrumb_status", "bs_read", "idle",
               {"identity", "database"})

\* the claim_handle command: db is held when identity is locked and dropped
\* before the API call; identity_mgr is dropped after it and locked again
ClaimHandleLocks ==
    \/ Advance("claim_handle", "idle", "ch_lock_db", {})
    \/ Acquire("claim_handle", "database", "ch_lock_db", "ch_count")
    \/ Advance("claim_handle", "ch_count", "idle", {"database"})
    \/ Advance("claim_handle", "ch_count", "ch_lock_identity", {})
    \/ Acquire("claim_handle", "identity", "ch_lock_identity", "ch_sign")
    \/ Advance("claim_handle", "ch_sign", "idle", {"identity", "database"})
    \/ Advance("claim_handle", "ch_sign", "ch_api", {"database"})
    \/ Advance("claim_handle", "ch_api", "idle", {"identity"})
    \/ Advance("claim_handle", "ch_api", "ch_relock_identity", {"identity"})
    \/ Acquire("claim_handle", "identity", "ch_relock_identity", "ch_cache")
    \/ Advance("claim_handle", "ch_cache", "idle", {"identity"})

\* the get_offline_status command: db, then relay
GetOfflineStatusLocks ==
    \/ Advance("get_offline_status", "idle", "os_lock_db", {})
    \/ Acquire("get_offline_status", "database", "os_lock_db", "os_lock_relay")
    \/ Acquire("get_offline_status", "relay", "os_lock_relay", "os_read")
    \/ Advance("get_offline_status", "os_read", "idle", {"relay", "database"})

\* the save_sent_email_message command: identity_mgr, db and relay live to
\* the end of the function
SaveSentEmailMessageLocks ==
    \/ Advance("save_sent_email_message", "idle", "em_lock_identity", {})
    \/ Acquire("save_sent_email_message", "identity", "em_lock_identity",
               "em_create")
    \/ Advance("save_sent_email_message", "em_create", "idle", {"identity"})
    \/ Advance("save_sent_email_message", "em_create", "em_lock_db", {})
    \/ Acquire("save_sent_email_message", "database", "em_lock_db", "em_save")
    \/ Advance("save_sent_email_message", "em_save", "idle",
               {"database", "identity"})
    \/ Advance("save_sent_email_message", "em_save", "em_lock_relay", {})
    \/ Acquire("save_sent_email_message", "relay", "em_lock_relay", "em_send")
    \/ Advance("save_sent_email_message", "em_send", "idle",
               {"relay", "database", "identity"})

\* the reconnect command: identity is dropped before relay is locked
ReconnectLocks ==
    \/ Advance("reconnect", "idle", "rc_lock_identity", {})
    \/ Acquire("reconnect", "identity", "rc_lock_identity", "rc_key")
    \/ Advance("reconnect", "rc_key", "idle", {"identity"})
    \/ Advance("reconnect", "rc_key", "rc_lock_relay", {"identity"})
    \/ Acquire("reconnect", "relay", "rc_lock_relay", "rc_reconnect")
    \/ Advance("reconnect", "rc_reconnect", "idle", {"relay"})

LockNext ==
    \/ HandleEnvelopeLocks \/ RequestDecryptionLocks
    \/ SendMessageLocks \/ MarkThreadReadLocks \/ GetConnectionStatusLocks
    \/ GetBreadcrumbStatusLocks \/ ClaimHandleLocks \/ GetOfflineStatusLocks
    \/ SaveSentEmailMessageLocks \/ ReconnectLocks

LockSpec == Init /\ [][LockNext]_vars

\* The task reads or writes the local store, or sends on the relay.
DoingIo(t) ==
    at[t] \in {"env_save", "env_send", "dec_read", "dec_send", "snd_send",
               "snd_save", "ui_mark", "ch_api", "os_read", "em_save",
               "em_send", "rc_reconnect"}

\* The task waits for the database mutex or for the relay mutex.
WaitingForLock(t) ==
    at[t] \in {"env_lock_db", "env_lock_relay", "dec_lock_relay",
               "dec_lock_db", "snd_lock_relay", "snd_lock_db", "em_lock_db",
               "em_lock_relay"}

\* C13 (as claimed): the task that holds the identity mutex neither does
\* store or relay I/O nor waits for the database or the relay mutex.
C13_IdentityReleased ==
    \A t \in Tasks :
        holder["identity"] = t => ~DoingIo(t) /\ ~WaitingForLock(t)

(***************************************************************************)
(* PureSpec: the pure functions of the thread derivation, applied to       *)
(* arguments drawn from bounded sets.                                      *)
(***************************************************************************)
EmptyDb == [threads |-> {}, messages |-> {}, ok |-> TRUE]

TextPayload(text) == [kind |-> "json", subject |-> None, text |-> text]

\* Two messages from alice (one without text), one sent to alice from
\* another device, one message from carol.
Preloaded ==
    LET alice == public_key_hex("alice")
        carol == public_key_hex("carol")
        me == public_key_hex(Me)
        d1 == save_received_message(EmptyDb, "m1", DirectThreadId(me, alice),
                                    alice, Some("alice"), "text/plain",
                                    TextPayload("hi"), 1, TRUE, None, 1, "none")
        d2 == save_browser_sent_message(d1, "m2", alice, "yo", 2, me, 2, "none")
        d3 == save_received_message(d2, "m3", DirectThreadId(me, alice),
                                    alice, Some("alice"), "text/plain",
                                    TextPayload(""), 2, TRUE, None, 2, "none")
    IN  save_received_message(d3, "m4", DirectThreadId(me, carol), carol, None,
                              "text/plain", TextPayload("ciao"), 1, TRUE, None,
                              1, "none")

MaxTokens == 4          \* pieces a subject is put together from

\* 64-character keys: one hex digit 32 times, then another 32 times, so that
\* keys differ in their first half, in their second half, or in both.
HalfDigits == {48, 57, 97, 102}
SampleKey(p, q) == [k \in 1..64 |-> IF k <= 32 THEN p ELSE q]
SampleKeys == {SampleKey(p, q) : p \in HalfDigits, q \in HalfDigits}

\* "Re:", "FWD:", "fw:", " ", tab, "x", "re", ":"
Tokens ==
    {<<82, 101, 58>>, <<70, 87, 68, 58>>, <<102, 119, 58>>, <<32>>, <<9>>,
     <<120>>, <<114, 101>>, <<58>>}

RECURSIVE Concat(_)
Concat(pieces) ==
    IF pieces = <<>> THEN <<>> ELSE Head(pieces) \o Concat(Tail(pieces))

SampleSubjects ==
    {Concat(pieces) : pieces \in UNION {[1..n -> Tokens] : n \in 0..MaxTokens}}

ThreadArgs == {[f |-> "thread_id", a |-> a, b |-> b] : a \in SampleKeys, b \in SampleKeys}
SubjectArgs == {[f |-> "normalize_subject", x |-> x] : x \in SampleSubjects}

\* Envelopes alice makes for bob or carol, each to be opened by bob or carol.
EnvelopeArgs ==
    {[f |-> "open_envelope", recipient |-> i, sealed_for |-> r,
      envelope |-> create_envelope_with_metadata(
                       "alice", handle, public_key_hex(r),
                       encryption_key_hex(r), "text/plain", RawPayload(text),
                       None, None, "id1", 1, "e1", TheNonce).env] :
        i \in {"bob", "carol"}, r \in {"bob", "carol"},
        handle \in {None, Some("alice")}, text \in {"hi", "yo"}}

\* Reads of a thread of the store, with a limit.
ReadArgs ==
    {[f |-> "get_messages", db |-> Preloaded, limit |-> limit,
      thread_id |-> DirectThreadId(public_key_hex(Me), public_key_hex(p))] :
        p \in {"alice", "carol"}, limit \in {1, 2, 50}}

\* An own key and the keys of two peers.
PeerArgs ==
    {[f |-> "peers", me |-> me, p |-> p, q |-> q] :
        me \in SampleKeys, p \in SampleKeys, q \in SampleKeys}

\* The claim requirements (crates/gns-crypto-core/src/breadcrumb.rs).
MinBreadcrumbs == 100
MinLocations == 10
MinSpanSeconds == 604800       \* 7 * 24 * 60 * 60

(***************************************************************************)
(* Handle commands (src-tauri/src/commands/handles.rs).  A handle is the   *)
(* sequence of its character codes; the breadcrumbs table is the set of    *)
(* its rows, one per (h3_index, timestamp).                                *)
(***************************************************************************)
\* SELECT COUNT(*) FROM breadcrumbs
count_breadcrumbs(rows) == Cardinality(rows)

\* SELECT ... FROM breadcrumbs ORDER BY timestamp DESC LIMIT ? OFFSET 0, for
\* a table whose timestamps differ: the rows with fewer than limit rows
\* after them, latest first.  public_key is read back empty.
get_breadcrumbs(rows, limit) ==
    LET later == [r \in rows |->
                    Cardinality({q \in rows : q.timestamp > r.timestamp})]
        n == IF Cardinality(rows) < limit THEN Cardinality(rows) ELSE limit
    IN  [k \in 1..n |->
           LET r == CHOOSE r \in rows : later[r] = k - 1
           IN  [h3_index |-> r.h3_index, timestamp |-> r.timestamp,
                public_key |-> <<>>, signature |-> r.signature,
                resolution |-> 7]]

\* handle.trim_start_matches('@')
RECURSIVE trim_start_matches_at(_)
trim_start_matches_at(s) ==
    IF Len(s) > 0 /\ s[1] = 64 THEN trim_start_matches_at(Tail(s)) ELSE s

\* check_handle_available, with is_valid_handle_format and is_reserved_handle;
\* taken is the set of handles the directory resolves, fault = "resolve" is a
\* request to the directory that fails.
check_handle_available(handle, taken, fault) ==
    LET clean_handle == to_lowercase(trim_start_matches_at(handle))
        is_valid_handle_format ==
            /\ Len(clean_handle) >= 3 /\ Len(clean_handle) <= 20
            /\ \A k \in 1..Len(clean_handle) :
                 \/ clean_handle[k] \in 97..122
                 \/ clean_handle[k] \in 48..57
                 \/ clean_handle[k] = 95
        is_reserved_handle ==
            clean_handle \in
              {<<97, 100, 109, 105, 110>>,                    \* admin
               <<114, 111, 111, 116>>,                        \* root
               <<115, 121, 115, 116, 101, 109>>,              \* system
               <<115, 117, 112, 112, 111, 114, 116>>,         \* support
               <<104, 101, 108, 112>>,                        \* help
               <<103, 110, 115>>,                             \* gns
               <<103, 108, 111, 98, 101>>,                    \* globe
               <<99, 114, 117, 109, 98, 115>>,                \* crumbs
               <<111, 102, 102, 105, 99, 105, 97, 108>>,      \* official
               <<118, 101, 114, 105, 102, 105, 101, 100>>,    \* verified
               <<98, 111, 116>>,                              \* bot
               <<101, 99, 104, 111>>,                         \* echo
               <<110, 101, 119, 115>>,                        \* news
               <<97, 108, 101, 114, 116, 115>>,               \* alerts
               <<115, 101, 99, 117, 114, 105, 116, 121>>}     \* security
        answer(available, reason) ==
            [ok |-> TRUE, err |-> "", handle |-> clean_handle,
             available |-> available, reason |-> reason]
    IN  IF ~is_valid_handle_format THEN answer(FALSE, "Invalid format")
        ELSE IF fault = "resolve"
        THEN [ok |-> FALSE, err |-> "Failed to check handle",
              handle |-> clean_handle, available |-> FALSE, reason |-> ""]
        ELSE IF clean_handle \in taken
        THEN answer(FALSE, "This handle is already claimed.")
        ELSE IF is_reserved_handle THEN answer(FALSE, "This handle is reserved.")
        ELSE answer(TRUE, "")

NoClaimRequest ==
    [handle |-> <<>>, public_key |-> <<>>, signature |-> <<>>,
     breadcrumbs |-> <<>>]

\* claim_handle: identity is the identity of the device or none, rows the
\* breadcrumbs table, now what Utc::now returns; fault names the statement
\* that fails, if one does.  request is what api.claim_handle posts, and
\* cached_handle what set_cached_handle is called with.
claim_handle(handle, identity, rows, taken, now, fault) ==
    LET clean_handle == to_lowercase(trim_start_matches_at(handle))
        availability == check_handle_available(clean_handle, taken, fault)
        breadcrumb_count == IF fault = "count" THEN 0
                            ELSE count_breadcrumbs(rows)
        refused(e) == [ok |-> FALSE, err |-> e, submitted |-> FALSE,
                       request |-> NoClaimRequest, cached_handle |-> None]
    IN  IF ~availability.ok THEN refused(availability.err)
        ELSE IF ~availability.available THEN refused(availability.reason)
        ELSE IF breadcrumb_count < 100
        THEN refused("Need 100 breadcrumbs to claim a handle.")
        ELSE IF identity = None THEN refused("No identity configured")
        ELSE IF fault = "get" THEN refused("Failed to get breadcrumbs")
        ELSE
          LET i == Unwrap(identity)
              claim_data == <<"gns-claim-v1", clean_handle, public_key_hex(i),
                              now>>
              request == [handle |-> clean_handle,
                          public_key |-> public_key_hex(i),
                          signature |-> sign_bytes(i, claim_data),
                          breadcrumbs |-> get_breadcrumbs(rows, 100)]
          IN  IF fault = "claim"
              THEN [ok |-> FALSE, err |-> "Claim failed", submitted |-> TRUE,
                    request |-> request, cached_handle |-> None]
              ELSE [ok |-> TRUE, err |-> "", submitted |-> TRUE,
                    request |-> request, cached_handle |-> Some(clean_handle)]

\* Handles asked for: "@Dave", "ab", "alice" and "@admin"; the directory
\* resolves "alice".
SampleHandles ==
    {<<64, 68, 97, 118, 101>>, <<97, 98>>, <<97, 108, 105, 99, 101>>,
     <<64, 97, 100, 109, 105, 110>>}

TakenHandles == {<<97, 108, 105, 99, 101>>}

\* A breadcrumbs table of count rows in cells cells, a second apart from 0
\* on, the last one span seconds after the first.
BreadcrumbRows(count, cells, span) ==
    {[h3_index |-> i % cells,
      timestamp |-> IF i = count THEN span ELSE i - 1,
      signature |-> "sig"] : i \in 1..count}

\* Tables at the edges of the three requirements.
ClaimArgs ==
    {[f |-> "claim_handle", handle |-> handle, identity |-> identity,
      rows |-> BreadcrumbRows(count, cells, span), fault |-> fault] :
        handle \in SampleHandles, identity \in {None, Some(Me)},
        count \in {MinBreadcrumbs - 1, MinBreadcrumbs, MinBreadcrumbs + 1},
        cells \in {MinLocations - 1, MinLocations},
        span \in {MinSpanSeconds - 1, MinSpanSeconds},
        fault \in {"none", "resolve", "count", "get", "claim"}}

\* The all-zero key-agreement key save_sent_email_message passes: hex of 32
\* bytes, the public key of no identity.
ZeroEncryptionKey == [len |-> 32, of |-> "nobody"]

\* Subjects of emails: "Hi", "Re: HI", "x" and the empty subject.
EmailSubjects == {sHi, sReHI, <<120>>, <<>>}

\* An email this identity sends through the gateway (carol's key), new or as a
\* reply in thread_id, and an inbound email of the same gateway with
\* wire_thread_id among its hints.
EmailArgs ==
    {[f |-> "email_thread", subject |-> subject, inbound_subject |-> inbound,
      thread_id |-> thread_id, wire_thread_id |-> wire_thread_id] :
        subject \in EmailSubjects, inbound \in EmailSubjects,
        thread_id \in {None, Some(tT1)}, wire_thread_id \in {None, Some(tT1)}}

PureInit ==
    /\ InitRouter /\ InitStoreObserver /\ InitLocks /\ InitRelay
    /\ InitTrajectory /\ InitHost
    /\ build = "release"
    /\ arg \in ThreadArgs \cup SubjectArgs \cup EnvelopeArgs \cup ReadArgs
                \cup PeerArgs \cup EmailArgs \cup ClaimArgs
    /\ returned = NoResult

OutsidePure == <<wire, origin, RouterVars, StoreObserver, RelayVars, LockVars,
                 TrajectoryVars, HostVars>>

\* The thread id of the only thread row in a store that was empty before.
StoredThreadId(db) == (CHOOSE t \in db.threads : TRUE).id

\* An envelope from a to b with no thread_id, as far as the saves and the
\* router's thread derivation read it.
PlainEnvelope(a, b) ==
    [NoEnvelope EXCEPT !.id = "id1", !.from_public_key = a,
                       !.to_public_keys = <<b>>, !.payload_type = "text/plain",
                       !.timestamp = 1]

\* The direct thread of a and b as each place of the code derives it: the
\* router on either side, save_sent_message and save_browser_sent_message on
\* a's device for a message to b, and b's router for that message.
DeriveThreadIds ==
    /\ arg.f = "thread_id" /\ returned = NoResult
    /\ LET a == arg.a
           b == arg.b
           empty == [threads |-> {}, messages |-> {}, ok |-> TRUE]
           o == [NoOpened EXCEPT !.ok = TRUE, !.from_public_key = a,
                                 !.payload_type = "text/plain"]
       IN  returned' =
             [f |-> "thread_id",
              my_a |-> DirectThreadId(a, b),
              my_b |-> DirectThreadId(b, a),
              sent |-> StoredThreadId(
                         save_sent_message(empty, PlainEnvelope(a, b),
                                           RawPayload("hi"), None, None, 1,
                                           "none")),
              browser_sent |-> StoredThreadId(
                         save_browser_sent_message(empty, "id1", b, "hi", 1, a,
                                                   1, "none")),
              received |-> ThreadIdFor(o, ParsePayload(RawPayload("hi")), b,
                                       UuidString(1))]
    /\ UNCHANGED <<arg, OutsidePure>>

\* normalize_subject, applied once and applied to its own result
NormalizeSubject ==
    /\ arg.f = "normalize_subject" /\ returned = NoResult
    /\ returned' = [f |-> "normalize_subject",
                    once |-> normalize_subject(arg.x),
                    twice |-> normalize_subject(normalize_subject(arg.x))]
    /\ UNCHANGED <<arg, OutsidePure>>

\* The envelope with its encryptedPayload in the string form: the value is
\* the ciphertext, the ephemeral key and the nonce are top-level members, and
\* every other member is as it was.
StringForm(envelope) ==
    [envelope EXCEPT
       !.encrypted_payload = PayloadString(envelope.encrypted_payload),
       !.ephemeral_public_key =
           Some(envelope.encrypted_payload.ephemeral_public_key),
       !.nonce = Some(envelope.encrypted_payload.nonce)]

\* open_envelope, applied to an envelope and to its string form, and
\* decrypt_from_sender, applied to its sealed payload
OpenBothForms ==
    /\ arg.f = "open_envelope" /\ returned = NoResult
    /\ returned' = [f |-> "open_envelope",
                    object |-> open_envelope(arg.recipient, arg.envelope),
                    string |-> open_envelope(arg.recipient,
                                             StringForm(arg.envelope)),
                    decrypted |-> decrypt_from_sender(
                                      x25519_secret(arg.recipient),
                                      SealedOf(arg.envelope))]
    /\ UNCHANGED <<arg, OutsidePure>>

\* get_messages, called twice on one store
ReadTwice ==
    /\ arg.f = "get_messages" /\ returned = NoResult
    /\ \E first, second \in get_messages(arg.db.messages, arg.thread_id,
                                           arg.limit) :
         returned' = [f |-> "get_messages", first |-> first,
                      second |-> second]
    /\ UNCHANGED <<arg, OutsidePure>>

\* The direct threads of one device with two peers: the ids the router
\* derives, and the threads save_browser_sent_message leaves in a store that
\* was empty after one message to each peer.
DerivePeerThreads ==
    /\ arg.f = "peers" /\ returned = NoResult
    /\ LET one == save_browser_sent_message(EmptyDb, "m1", arg.p, "hi", 1,
                                            arg.me, 1, "none")
           two == save_browser_sent_message(one, "m2", arg.q, "yo", 2, arg.me,
                                            2, "none")
       IN  returned' =
             [f |-> "peers",
              with_p |-> DirectThreadId(arg.me, arg.p),
              with_q |-> DirectThreadId(arg.me, arg.q),
              stored |-> {t.id : t \in two.threads}]
    /\ UNCHANGED <<arg, OutsidePure>>

\* save_sent_email_message: the thread is the given thread_id, or the digest
\* of the normalized subject, or a fresh uuid when that is empty; the envelope
\* is made for the gateway with the all-zero key and stored by
\* save_sent_message with the recipient's address as the handle; sync is the
\* message_synced frame handed to send_raw afterwards.
save_sent_email_message(db, my_handle, recipient_email, subject, snippet, gateway_public_key, thread_id, fresh, envelope_id, timestamp, now, fail) ==
    LET payload == JsonPayload(Some(subject), snippet)
        s == normalize_subject(subject)
        final_thread_id ==
            IF IsSome(thread_id) THEN Unwrap(thread_id)
            ELSE IF Len(s) = 0 THEN fresh
            ELSE Sha256Hex(s)
        made == create_envelope_with_metadata(
                    Me, my_handle, gateway_public_key, ZeroEncryptionKey,
                    "email", payload, Some(final_thread_id), None, envelope_id,
                    timestamp, "e1", TheNonce)
        saved == save_sent_message(db, made.env, payload,
                                   Some(recipient_email), None, now, fail)
    IN  [db |-> saved, ok |-> saved.ok,
         err |-> IF saved.ok THEN "" ELSE "Failed to save locally",
         message_id |-> made.env.id, thread_id |-> Some(final_thread_id),
         sync |-> IF saved.ok
                  THEN <<MessageSyncedFrame(
                             <<public_key_hex(Me)>>, made.env.id,
                             gateway_public_key, snippet, "outgoing",
                             made.env.timestamp, None)>>
                  ELSE <<>>]

\* One email conversation as each place of the code files it: the thread
\* save_sent_email_message stores the sent email under, the thread
\* save_sent_message stores an "email" envelope of send_message under, and
\* the thread the router derives for the inbound email.
DeriveEmailThreads ==
    /\ arg.f = "email_thread" /\ returned = NoResult
    /\ LET gateway == public_key_hex("carol")
           payload == JsonPayload(Some(arg.subject), "hi")
           by_email == save_sent_email_message(
                           EmptyDb, None, "a@b.c", arg.subject, "hi", gateway,
                           arg.thread_id, UuidString(1), "id1", 1, 1, "none")
           made == create_envelope_with_metadata(
                       Me, None, gateway, encryption_key_hex("carol"), "email",
                       payload, arg.thread_id, None, "id2", 1, "e1", TheNonce)
           by_send == save_sent_message(EmptyDb, made.env, payload, None,
                                        None, 1, "none")
           o == [NoOpened EXCEPT !.ok = TRUE, !.from_public_key = gateway,
                                 !.payload_type = "email",
                                 !.thread_id = arg.wire_thread_id]
       IN  returned' =
             [f |-> "email_thread",
              same_subject |-> normalize_subject(arg.subject)
                                 = normalize_subject(arg.inbound_subject),
              sent_email |-> StoredThreadId(by_email.db),
              result_thread |-> by_email.thread_id,
              sync |-> by_email.sync,
              sent |-> StoredThreadId(by_send),
              received |-> ThreadIdFor(
                               o, JsonPayload(Some(arg.inbound_subject), "yo"),
                               public_key_hex(Me), UuidString(2))]
    /\ UNCHANGED <<arg, OutsidePure>>

\* The command claim_handle, called on a device with a breadcrumbs table
ClaimHandle ==
    /\ arg.f = "claim_handle" /\ returned = NoResult
    /\ LET result == claim_handle(arg.handle, arg.identity, arg.rows,
                                  TakenHandles, 1, arg.fault)
       IN  returned' = [f |-> "claim_handle", ok |-> result.ok,
                        err |-> result.err, submitted |-> result.submitted,
                        request |-> result.request,
                        cached_handle |-> result.cached_handle]
    /\ UNCHANGED <<arg, OutsidePure>>

PureNext ==
    \/ DeriveThreadIds \/ NormalizeSubject \/ OpenBothForms \/ ReadTwice
    \/ DerivePeerThreads \/ DeriveEmailThreads \/ ClaimHandle

PureSpec == PureInit /\ [][PureNext]_vars

\* C16: the direct-thread id of a pair of 64-character keys is the same with
\* the keys in either order, and save_sent_message and
\* save_browser_sent_message on the sending device store a message under the
\* id the router of the receiving device derives for it.
C16_ThreadIdSymmetric ==
    returned.f = "thread_id"
      => /\ returned.my_a = returned.my_b
         /\ returned.sent = returned.received
         /\ returned.browser_sent = returned.received

\* The ids were derived for two keys that differ in their first 32
\* characters.
C16_Witness ==
    /\ returned.f = "thread_id"
    /\ SubSeq(arg.a, 1, 32) # SubSeq(arg.b, 1, 32)
    /\ StrLess(arg.b, arg.a)

\* C17: normalize_subject returns a fixed point of itself, with no white
\* space at either end and none of the prefixes "re:", "fwd:", "fw:" in front.
C17_NormalizeIdempotent ==
    returned.f = "normalize_subject"
      => /\ returned.twice = returned.once
         /\ trim(returned.once) = returned.once
         /\ ~starts_with(returned.once, <<114, 101, 58>>)
         /\ ~starts_with(returned.once, <<102, 119, 100, 58>>)
         /\ ~starts_with(returned.once, <<102, 119, 58>>)

\* A subject with two prefixes and white space around was normalized to "x".
C17_Witness ==
    /\ returned.f = "normalize_subject"
    /\ arg.x = <<32, 82, 101, 58, 70, 87, 68, 58, 120>>
    /\ returned.once = <<120>>

(***************************************************************************)
(* SyncSpec: the router of Me takes message_synced and request_sync frames *)
(* from the other devices of its owner.  The store is empty or holds what  *)
(* earlier saves left in it.                                               *)
(***************************************************************************)
SyncInit ==
    /\ wire = NoFrame
    /\ origin = NoOrigin
    /\ opened = NoOpened
    /\ routerAlive = TRUE
    /\ handled = 0
    /\ \E db \in {EmptyDb, Preloaded} :
         threads = db.threads /\ messages = db.messages
    /\ events = <<>>
    /\ relayOut = <<>>
    /\ saveResult = ""
    /\ lastMsg = NoMessage
    /\ InitStoreObserver /\ InitElsewhere /\ InitRelay
    /\ build = "release"

Peers == {public_key_hex("alice"), public_key_hex("carol")}

MessageSyncedFrames(n) ==
    {[NoFrame EXCEPT
        !.type = "message_synced",
        !.body = [NoBody EXCEPT !.messageId = Some(id),
                                !.conversationWith = Some(p),
                                !.decryptedText = Some("hey"),
                                !.direction = direction,
                                !.timestamp = Some(MaxTime),
                                !.fromHandle = from_handle]] :
        id \in {"m1", FrameId(n)}, p \in Peers,
        direction \in {None, Some("incoming"), Some("outgoing")},
        from_handle \in {None, Some("alice")}}

RequestSyncFrames ==
    {[NoFrame EXCEPT
        !.type = "request_sync",
        !.body = [NoBody EXCEPT !.conversationWith = Some(p), !.limit = limit]] :
        p \in Peers, limit \in {None, Some(0), Some(1), Some(2)}}

\* The reader task passes the next frame to the router's channel.
SyncReceive ==
    /\ wire = NoFrame
    /\ handled < MaxFrames
    /\ \E f \in MessageSyncedFrames(handled + 1) \cup RequestSyncFrames :
         wire' = f
    /\ UNCHANGED <<origin, RouterVars, OutsideEnvelope>>

\* The router takes the frame; a save may fail, the relay may be down.
SyncRoute == RouterTurn({MaxTime}, FailPoints, BOOLEAN)

SyncNext == SyncReceive \/ SyncRoute

SyncSpec == SyncInit /\ [][SyncNext]_vars

\* The router takes a MessageSynced frame of this direction and saves it.
SyncedStep(direction) ==
    /\ handled' = handled + 1
    /\ lastMsg'.kind = "MessageSynced"
    /\ lastMsg'.sync.direction = direction
    /\ saveResult' = "ok"

\* C19: a MessageSynced frame with direction "outgoing" and conversation_with
\* P is stored as one row with direction out and status sent in the direct
\* thread of Me and P, whose unread_count stays as it was; a frame with
\* direction "incoming" is stored as one received row from P.
C19_PeerMirror ==
    [][LET sync == lastMsg'.sync
           tid == DirectThreadId(public_key_hex(Me), sync.conversation_with)
           stored == {m \in messages' : m.id = sync.message_id}
       IN  /\ SyncedStep("outgoing")
                => /\ Cardinality(stored) = 1
                   /\ \A m \in stored :
                        /\ m.is_outgoing /\ m.status = "sent"
                        /\ m.thread_id = tid
                   /\ HasThread(threads', tid)
                   /\ UnreadOf(threads', tid) = UnreadOf(threads, tid)
           /\ SyncedStep("incoming")
                => /\ Cardinality(stored) = 1
                   /\ \A m \in stored :
                        /\ ~m.is_outgoing /\ m.status = "received"
                        /\ m.from_public_key = sync.conversation_with]_vars

\* An outgoing synced message was stored in a thread with unread messages.
C19_Witness ==
    /\ lastMsg.kind = "MessageSynced"
    /\ lastMsg.sync.direction = "outgoing"
    /\ saveResult = "ok"
    /\ \E m \in messages :
         /\ m.id = lastMsg.sync.message_id /\ m.is_outgoing
         /\ UnreadOf(threads, m.thread_id) = 2

\* C20: on RequestSync the frames the router sends are at most limit, each
\* is a message_synced frame to the router's own key made from a row of the
\* direct thread of Me and the peer, and together they are a front part of
\* the list to send: nothing follows the send that failed.
C20_RequestSync ==
    [][(handled' = handled + 1 /\ lastMsg'.kind = "RequestSync")
         => LET sync == lastMsg'.sync
                tid == DirectThreadId(public_key_hex(Me), sync.conversation_with)
                added == SubSeq(relayOut', Len(relayOut) + 1, Len(relayOut'))
            IN  /\ SubSeq(relayOut', 1, Len(relayOut)) = relayOut
                /\ Len(added) <= sync.limit
                /\ \A i \in 1..Len(added) :
                     /\ added[i].type = "message_synced"
                     /\ added[i].to = <<public_key_hex(Me)>>
                     /\ added[i].conversationWith = sync.conversation_with
                     /\ \E m \in messages :
                          /\ m.id = added[i].messageId
                          /\ m.thread_id = tid
                          /\ m.payload_json.text = added[i].decryptedText
                /\ \E rows \in get_messages(messages, tid, sync.limit) :
                     LET frames == SyncFrames(rows, sync.conversation_with)
                     IN  \E k \in 0..Len(frames) :
                            added = SubSeq(frames, 1, k)]_vars

\* A request with limit 1 was answered with one frame out of a thread that
\* holds more.
C20_Witness ==
    /\ lastMsg.kind = "RequestSync"
    /\ lastMsg.sync.limit = 1
    /\ Len(relayOut) = 1
    /\ \E m \in messages : m.id = relayOut[1].messageId
    /\ Cardinality({m \in messages :
                      m.thread_id = DirectThreadId(public_key_hex(Me),
                                        lastMsg.sync.conversation_with)}) = 3

\* C22 (as claimed): open_envelope returns the same payload and the same
\* signature_valid for an envelope with encryptedPayload in the object form
\* and for the otherwise identical envelope with it in the string form.
C22_FormsEquivalent ==
    returned.f = "open_envelope"
      => /\ returned.object.ok = returned.string.ok
         /\ returned.object.payload = returned.string.payload
         /\ returned.object.signature_valid = returned.string.signature_valid

\* The ids of the stored rows in lexicographic order.
IdRank(id) == CHOOSE k \in 1..4 : <<"m1", "m2", "m3", "m4">>[k] = id

\* C23 (as claimed): get_messages returns the messages of a thread ordered
\* by timestamp (newest first), those with one timestamp ordered by id, so
\* that two reads of one store return the same sequence.
C23_StableOrder ==
    returned.f = "get_messages"
      => /\ returned.first = returned.second
         /\ \A i, j \in 1..Len(returned.first) :
              i < j => LET a == returned.first[i]
                           b == returned.first[j]
                       IN  \/ a.timestamp > b.timestamp
                           \/ /\ a.timestamp = b.timestamp
                              /\ IdRank(a.id) < IdRank(b.id)

(***************************************************************************)
(* Breadcrumbs and trajectories (crates/gns-crypto-core/src/breadcrumb.rs) *)
(***************************************************************************)
\* format!("gns-breadcrumb-v1:{}:{}:{}", h3_index, timestamp, public_key)
SigningData(h3_index, timestamp, public_key) ==
    <<"gns-breadcrumb-v1", h3_index, timestamp, public_key>>

\* create_breadcrumb_from_h3; timestamp is what Utc::now returns.
create_breadcrumb_from_h3(identity, h3_index, resolution, timestamp) ==
    [h3_index |-> h3_index,
     timestamp |-> timestamp,
     public_key |-> public_key_hex(identity),
     signature |-> sign_bytes(identity,
                              SigningData(h3_index, timestamp,
                                          public_key_hex(identity))),
     resolution |-> resolution]

verify_breadcrumb(breadcrumb) ==
    verify_signature_hex(breadcrumb.public_key,
                         SigningData(breadcrumb.h3_index, breadcrumb.timestamp,
                                     breadcrumb.public_key),
                         breadcrumb.signature)

\* Vec::sort_by_key(|b| b.timestamp): a stable sort, so breadcrumbs with one
\* timestamp stay in the order they had.
\* The breadcrumbs of v with the smallest of the keys, in the order they
\* have in v, then those with the next key, and so on.
RECURSIVE ByKeys(_, _)
ByKeys(v, keys) ==
    IF keys = {} THEN <<>>
    ELSE LET k == CHOOSE x \in keys : \A y \in keys : x <= y
         IN  SelectSeq(v, LAMBDA b : b.timestamp = k) \o ByKeys(v, keys \ {k})

sort_by_key(v) == ByKeys(v, {v[i].timestamp : i \in 1..Len(v)})

\* Mutant: the breadcrumb is pushed and the vector is not sorted.
add_unsorted(t, breadcrumb) ==
    [ok |-> TRUE, err |-> "",
     t |-> [t EXCEPT !.breadcrumbs = Append(t.breadcrumbs, breadcrumb)]]

\* Trajectory::add
add(t, breadcrumb) ==
    LET verified == verify_breadcrumb(breadcrumb)
    IN  IF breadcrumb.public_key # t.public_key
        THEN [ok |-> FALSE, err |-> "InvalidEnvelope", t |-> t]
        ELSE IF ~verified.ok
        THEN [ok |-> FALSE, err |-> verified.err, t |-> t]
        ELSE IF ~verified.valid
        THEN [ok |-> FALSE, err |-> "SignatureVerificationFailed", t |-> t]
        ELSE [ok |-> TRUE, err |-> "",
              t |-> [t EXCEPT !.breadcrumbs =
                        sort_by_key(Append(t.breadcrumbs, breadcrumb))]]

unique_locations(t) ==
    Cardinality({t.breadcrumbs[i].h3_index : i \in 1..Len(t.breadcrumbs)})

time_span_seconds(t) ==
    IF Len(t.breadcrumbs) < 2 THEN None
    ELSE Some(t.breadcrumbs[Len(t.breadcrumbs)].timestamp
                - t.breadcrumbs[1].timestamp)

\* Mutant: the time span is not looked at.
meets_claim_requirements_anytime(t) ==
    /\ Len(t.breadcrumbs) >= MinBreadcrumbs
    /\ unique_locations(t) >= MinLocations

meets_claim_requirements(t) ==
    IF Len(t.breadcrumbs) < MinBreadcrumbs THEN FALSE
    ELSE IF unique_locations(t) < MinLocations THEN FALSE
    ELSE LET span == time_span_seconds(t)
         IN  IF IsSome(span) THEN Unwrap(span) >= MinSpanSeconds ELSE FALSE

(***************************************************************************)
(* TrajectorySpec: Me collects breadcrumbs into one trajectory.            *)
(***************************************************************************)
MaxBreadcrumbs == 101   \* breadcrumbs in the trajectory
FreeAdds == 1           \* adds at the start that may be any breadcrumb

H3Cells == <<"c0", "c1", "c2", "c3", "c4", "c5", "c6", "c7", "c8", "c9">>

\* Breadcrumbs of Me at the two ends of a week: in a tenth cell, or in a
\* cell of the daily round a second before the week is over.
EndBreadcrumbs ==
    {create_breadcrumb_from_h3(Me, "c9", 7, 0),
     create_breadcrumb_from_h3(Me, "c9", 7, MinSpanSeconds),
     create_breadcrumb_from_h3(Me, "c0", 7, MinSpanSeconds),
     create_breadcrumb_from_h3(Me, "c0", 7, MinSpanSeconds - 1)}

\* Breadcrumbs add must refuse: alice's own, one alice signed in the name of
\* Me, one whose timestamp was changed after signing, and one whose
\* signature is not hex.
OddBreadcrumbs ==
    LET mine == create_breadcrumb_from_h3(Me, "c9", 7, 0)
        hers == create_breadcrumb_from_h3("alice", "c9", 7, 0)
    IN  {hers,
         [hers EXCEPT !.public_key = public_key_hex(Me)],
         [mine EXCEPT !.timestamp = MinSpanSeconds],
         [mine EXCEPT !.signature = NotHexSignature]}

\* The breadcrumbs that may come as the n-th of the trajectory: any at the
\* start and from the 99th on, one of the daily round (nine cells, one day
\* into the week) in between.
Collected(n) ==
    IF n <= FreeAdds \/ n >= MinBreadcrumbs - 1
    THEN EndBreadcrumbs \cup OddBreadcrumbs
    ELSE {create_breadcrumb_from_h3(Me, H3Cells[(n % 9) + 1], 7, 86400)}

TrajectoryInit ==
    /\ InitRouter /\ InitStoreObserver /\ InitElsewhere /\ InitRelay
    /\ build = "release"

\* trajectory.add(breadcrumb)
AddBreadcrumb ==
    /\ Len(trajectory.breadcrumbs) < MaxBreadcrumbs
    /\ \E b \in Collected(Len(trajectory.breadcrumbs) + 1) :
         LET result == add(trajectory, b)
         IN  /\ trajectory' = result.t
             /\ lastAdd' = [ok |-> result.ok, err |-> result.err,
                            breadcrumb |-> b]
    /\ UNCHANGED <<wire, origin, RouterVars, StoreObserver, RelayVars,
                   LockVars, PureVars, HostVars>>

TrajectoryNext == AddBreadcrumb

TrajectorySpec == TrajectoryInit /\ [][TrajectoryNext]_vars

\* The trajectory without its i-th breadcrumb.
RemoveAt(t, i) ==
    [t EXCEPT !.breadcrumbs = SubSeq(t.breadcrumbs, 1, i - 1)
                                \o SubSeq(t.breadcrumbs, i + 1,
                                          Len(t.breadcrumbs))]

\* C25: meets_claim_requirements is true exactly of the trajectories with at
\* least 100 breadcrumbs, at least 10 cells and at least 604800 s from the
\* first to the last; a trajectory that fails it still fails it with any one
\* breadcrumb removed, and so does every trajectory of exactly 100.
C25_ClaimRequirements ==
    LET crumbs == trajectory.breadcrumbs
        n == Len(crumbs)
        cells == {crumbs[i].h3_index : i \in 1..n}
    IN  /\ meets_claim_requirements(trajectory)
             <=> /\ n >= 100
                 /\ Cardinality(cells) >= 10
                 /\ crumbs[n].timestamp - crumbs[1].timestamp >= 604800
        /\ (~meets_claim_requirements(trajectory) \/ n = 100)
             => \A i \in 1..n : ~meets_claim_requirements(RemoveAt(trajectory, i))

\* A trajectory of exactly 100 breadcrumbs in 10 cells over exactly 7 days
\* is eligible.
C25_Witness ==
    /\ Len(trajectory.breadcrumbs) = 100
    /\ unique_locations(trajectory) = 10
    /\ time_span_seconds(trajectory) = Some(604800)
    /\ meets_claim_requirements(trajectory)

\* The breadcrumb carries the signature its public_key's owner makes for it.
SignedByOwner(b) ==
    \E i \in Names :
       /\ b.public_key = public_key_hex(i)
       /\ b.signature = sign_bytes(i, SigningData(b.h3_index, b.timestamp,
                                                  b.public_key))

\* C26: add refuses a breadcrumb of another signer and one whose signature
\* is not valid, and leaves the trajectory as it was; an add that succeeds
\* puts the breadcrumb in and leaves the list sorted by timestamp.
C26_AddChecked ==
    [][LET b == lastAdd'.breadcrumb
           before == trajectory.breadcrumbs
           after == trajectory'.breadcrumbs
       IN  /\ (b.public_key # trajectory.public_key \/ ~SignedByOwner(b))
                => ~lastAdd'.ok /\ trajectory' = trajectory
           /\ ~lastAdd'.ok => trajectory' = trajectory
           /\ (lastAdd'.ok /\ trajectory' # trajectory)
                => /\ Len(after) = Len(before) + 1
                   /\ \E i \in 1..Len(after) :
                        after[i] = b /\ RemoveAt(trajectory', i).breadcrumbs = before
                   /\ \A i \in 1..(Len(after) - 1) :
                        after[i].timestamp <= after[i + 1].timestamp]_vars

\* A breadcrumb added after later ones stands in front of them.
C26_Witness ==
    /\ lastAdd.ok
    /\ Len(trajectory.breadcrumbs) >= 3
    /\ trajectory.breadcrumbs[1] = lastAdd.breadcrumb
    /\ trajectory.breadcrumbs[2].timestamp > lastAdd.breadcrumb.timestamp

(***************************************************************************)
(* MirrorSpec: the devices of one owner mirror each other's messages.      *)
(* Every device runs the router with the owner's identity, and the relay   *)
(* passes a frame addressed to the owner's key to the owner's devices; the *)
(* model follows the frames through one router.                            *)
(***************************************************************************)
MaxOriginals == 2       \* frames that come from peers or from the browser
MaxMirrored == 3        \* frames the relay passes on between the devices

\* Frames of a browser session of the owner that has sent a message itself.
BrowserSentFrames(n) ==
    {[NoFrame EXCEPT
        !.type = "message_sent_from_browser",
        !.body = [NoBody EXCEPT !.messageId = Some(FrameId(n)),
                                !.to_pk = Some(p),
                                !.plaintext = Some("yo"),
                                !.timestamp = timestamp]] :
        p \in Peers, timestamp \in {None, Some(1)}}

\* The frames of peers and of the browser handled so far.
Originals == handled - mirrored

\* The reader task passes the router an envelope of a peer, for this owner
\* or for somebody else, or a frame of the browser.
MirrorReceive ==
    /\ wire = NoFrame
    /\ Originals < MaxOriginals
    /\ \E f \in ChatFrames(Originals + 1)
                  \cup {Letter("alice", "carol", "text/plain",
                               RawPayload("hi"), None, Originals + 1)}
                  \cup BrowserSentFrames(Originals + 1) :
         wire' = f
    /\ UNCHANGED <<origin, RouterVars, OutsideEnvelope>>

\* The relay passes the next frame a router sent "to" the owner's key to a
\* device of the owner, whose reader task passes it to the router: the
\* members of the frame are those parse_incoming_message reads.
RelayMirrors ==
    /\ wire = NoFrame
    /\ mirrored < Len(relayOut)
    /\ mirrored < MaxMirrored
    /\ LET frame == relayOut[mirrored + 1]
       IN  /\ \E k \in 1..Len(frame.to) : frame.to[k] = public_key_hex(Me)
           /\ wire' =
                [NoFrame EXCEPT
                   !.type = frame.type,
                   !.body = [NoBody EXCEPT
                      !.messageId = Some(frame.messageId),
                      !.conversationWith = Some(frame.conversationWith),
                      !.decryptedText = Some(frame.decryptedText),
                      !.direction = Some(frame.direction),
                      !.timestamp = Some(frame.timestamp),
                      !.fromHandle = frame.fromHandle]]
    /\ mirrored' = mirrored + 1
    /\ UNCHANGED <<origin, RouterVars, StoreObserver, RelayVars, LockVars,
                   PureVars, TrajectoryVars, incoming_tx, reader_tx, lastText,
                   pending_messages, lastSend>>

\* The router takes the frame; a save may fail, the relay may be down.
MirrorRoute == RouterTurn({MaxTime}, FailPoints, BOOLEAN)

MirrorNext == MirrorReceive \/ RelayMirrors \/ MirrorRoute

MirrorSpec == RouterInit /\ [][MirrorNext]_vars

\* The new_message events of opened envelopes.
EnvelopesOpened ==
    {i \in 1..Len(events) : events[i].name = "new_message"
                            /\ "thread_id" \in DOMAIN events[i]}

\* C40: handling a MessageSynced or MessageSentFromBrowser frame sends no
\* frame on the relay, and handling an Envelope sends at most one frame, a
\* message_synced; so the frames the owner's devices exchange are never more
\* than the envelopes opened, and mirroring comes to an end.
C40_SyncTerminates ==
    [][/\ (handled' = handled + 1
            /\ lastMsg'.kind \in {"MessageSynced", "MessageSentFromBrowser"})
         => relayOut' = relayOut
       /\ (handled' = handled + 1 /\ lastMsg'.kind = "Envelope")
         => \/ relayOut' = relayOut
            \/ /\ Len(relayOut') = Len(relayOut) + 1
               /\ SubSeq(relayOut', 1, Len(relayOut)) = relayOut
               /\ relayOut'[Len(relayOut')].type = "message_synced"
       /\ Len(relayOut') <= Cardinality(EnvelopesOpened')
       /\ mirrored' <= Len(relayOut')]_vars

\* C40, the case: an envelope was opened and synced, the relay passed the
\* frame on, the router stored it, and nothing is left to pass on.
C40_Witness ==
    /\ lastMsg.kind = "MessageSynced" /\ wire = NoFrame
    /\ saveResult = "ok"
    /\ mirrored >= 1 /\ mirrored = Len(relayOut)
    /\ \E m \in messages : m.id = lastMsg.sync.message_id

(***************************************************************************)
(* HostSpec: the host application (src-tauri/src/lib.rs and its commands). *)
(* At startup it connects the relay session and starts the router; later   *)
(* it calls the commands reconnect and send_message, while the reader      *)
(* tasks take text frames from their sockets.                              *)
(***************************************************************************)
\* The startup task has run: connect was called, so the state has left
\* Disconnected or a connection was made.
StartupDone == generation > 0 \/ state # "Disconnected"

\* The startup task.  In src-tauri's lib.rs the router's channel goes into a
\* copy of the RelayConnection (clone_with_incoming_channel) that connects
\* and is dropped, and the RelayConnection of AppState keeps incoming_tx =
\* None; in apps/desktop's main.rs the RelayConnection of AppState itself is
\* replaced by the copy.  connect returns Ok or an error.
Startup ==
    /\ ~StartupDone
    /\ pc = "idle"
    /\ \E main \in {"src-tauri/lib.rs", "apps/desktop/main.rs"} :
         incoming_tx' = (main = "apps/desktop/main.rs")
    /\ \/ /\ generation' = generation + 1
          /\ sender' = generation + 1
          /\ state' = "Connected"
          /\ readers' = readers \cup {generation + 1}
          /\ writers' = writers \cup {generation + 1}
          /\ reader_tx' = reader_tx \cup {generation + 1}
          /\ pc' = "idle"
       \/ /\ state' = "Connecting"
          /\ pc' = "failed"
          /\ UNCHANGED <<generation, sender, readers, writers, reader_tx>>
    /\ UNCHANGED <<reconnect_attempts, queued, build, slept, failedRun,
                   lastFault, QueueObserver, lastText, pending_messages, mirrored,
                   lastSend, wire, origin, RouterVars, StoreObserver,
                   LockVars, PureVars, TrajectoryVars>>

\* The command reconnect, from its call to its return: RelayConnection::
\* reconnect on the RelayConnection of AppState bumps the counter,
\* disconnects, sleeps the backoff delay and connects.  The reader task of
\* the new connection gets a copy of that object's incoming_tx.
ReconnectCommand ==
    /\ StartupDone
    /\ HostIdle
    /\ reconnect_attempts < MaxRetries
    /\ LET attempts == reconnect_attempts + 1
           delay == BackoffDelay(attempts, build = "debug")
       IN  IF delay.panic
           THEN /\ reconnect_attempts' = attempts
                /\ state' = "Disconnected"
                /\ sender' = 0
                /\ failedRun' = failedRun + 1
                /\ pc' = "panicked"
                /\ UNCHANGED <<generation, readers, writers, reader_tx>>
           ELSE
           \/ /\ generation < MaxConnections
              /\ generation' = generation + 1
              /\ sender' = generation + 1
              /\ state' = "Connected"
              /\ reconnect_attempts' = 0
              /\ failedRun' = 0
              /\ readers' = readers \cup {generation + 1}
              /\ writers' = writers \cup {generation + 1}
              /\ reader_tx' = IF incoming_tx
                              THEN reader_tx \cup {generation + 1}
                              ELSE reader_tx
              /\ pc' = "idle"
           \/ /\ reconnect_attempts' = attempts
              /\ state' = "Connecting"
              /\ sender' = 0
              /\ failedRun' = failedRun + 1
              /\ pc' = "failed"
              /\ UNCHANGED <<generation, readers, writers, reader_tx>>
    /\ UNCHANGED <<queued, build, slept, lastFault, QueueObserver, incoming_tx,
                   lastText, pending_messages, lastSend, mirrored, wire, origin,
                   RouterVars, StoreObserver, LockVars, PureVars,
                   TrajectoryVars>>

\* reader task of a connection, Ok(Message::Text(text)): with a channel the
\* frame is parsed and sent to the router (the parse is part of the router's
\* turn here), without one it is dropped.
ReaderText ==
    /\ handled < MaxFrames
    /\ \E g \in readers :
         /\ lastText' = [connection |-> g, dispatched |-> g \in reader_tx]
         /\ IF g \in reader_tx
            THEN /\ wire = NoFrame
                 /\ wire' = Letter("alice", Me, "text/plain", RawPayload("hi"),
                                   None, handled + 1)
            ELSE UNCHANGED wire
    /\ UNCHANGED <<origin, RouterVars, StoreObserver, RelayVars, LockVars,
                   PureVars, TrajectoryVars, incoming_tx, reader_tx,
                   pending_messages, lastSend, mirrored>>

\* The router takes the frame.
HostRoute == RouterTurn({MaxTime}, {"none"}, {TRUE})

SentIds == <<"s1", "s2", "s3", "s4">>

\* The command send_message(None, Some(alice's key), "text/plain",
\* {"text": text}, None, None), from its call to its return.  The directory
\* knows alice or not; send_envelope and send_raw find a sender whose
\* receiver lives or return NotConnected; a statement of the save may fail.
\* The queue has room for the two frames (it holds 100).
SendMessage ==
    /\ StartupDone
    /\ HostIdle
    /\ lastSend.n < MaxCommands
    /\ \E known \in BOOLEAN, text \in {"", "hi"}, fail \in FailPoints :
         LET n == lastSend.n + 1
             connected == sender # 0 /\ sender \in writers
             payload == JsonPayload(None, text)
             made == create_envelope_with_metadata(
                         Me, None, public_key_hex("alice"),
                         encryption_key_hex("alice"), "text/plain", payload,
                         None, None, SentIds[n], MaxTime, "e1", TheNonce)
             sync_event == MessageSyncedFrame(
                               <<public_key_hex(Me)>>, made.env.id,
                               public_key_hex("alice"), text, "outgoing",
                               made.env.timestamp, None)
             frames == IF text = "" THEN <<EnvelopeFrame(made.env)>>
                       ELSE <<EnvelopeFrame(made.env), sync_event>>
             saved == save_sent_message(Db, made.env, payload, None, None,
                                        MaxTime, fail)
             result(ok, err) ==
                 [n |-> n, connected |-> connected, ok |-> ok, err |-> err,
                  message_id |-> IF known /\ made.ok THEN made.env.id ELSE "",
                  text |-> text]
         IN  IF ~known
             THEN /\ lastSend' = result(FALSE, "Identity not found")
                  /\ UNCHANGED <<queued, threads, messages>>
             ELSE IF ~made.ok
             THEN /\ lastSend' = result(FALSE, "Failed to create envelope")
                  /\ UNCHANGED <<queued, threads, messages>>
             ELSE IF ~connected
             THEN /\ lastSend' = result(FALSE, "Failed to send")
                  /\ UNCHANGED <<queued, threads, messages>>
             ELSE /\ queued' = [queued EXCEPT ![sender] = @ \o frames]
                  /\ threads' = saved.threads
                  /\ messages' = saved.messages
                  /\ lastSend' = IF saved.ok THEN result(TRUE, "")
                                 ELSE result(FALSE, "Failed to save locally")
    /\ pc' = IF lastSend'.ok THEN "idle" ELSE "failed"
    /\ UNCHANGED <<state, reconnect_attempts, sender, readers, writers,
                   generation, build, slept, failedRun, lastFault,
                   QueueObserver, incoming_tx, reader_tx, lastText,
                   pending_messages, mirrored, wire, origin, opened, routerAlive,
                   handled, events, relayOut, saveResult, lastMsg,
                   StoreObserver, LockVars, PureVars, TrajectoryVars>>

HostInit ==
    /\ InitRouter /\ InitStoreObserver /\ InitElsewhere /\ InitRelay
    /\ build = "release"

HostNext ==
    \/ Startup \/ ReconnectCommand \/ ReaderText \/ HostRoute \/ SendMessage

HostSpec == HostInit /\ [][HostNext]_vars

\* C33 (as claimed): a text frame that the reader task of the newest
\* connection takes is passed to the router, whether the connection was made
\* at startup or by the command reconnect.
C33_DispatchAfterReconnect ==
    [][(lastText' # lastText /\ lastText'.connection = generation)
         => (lastText'.dispatched /\ wire' # NoFrame)]_vars

(***************************************************************************)
(* StoredSpec: the calls of StoreSpec on a store that holds messages of    *)
(* earlier saves.                                                          *)
(***************************************************************************)
StoredInit ==
    /\ wire = NoFrame
    /\ origin = NoOrigin
    /\ opened = NoOpened
    /\ routerAlive = TRUE
    /\ handled = 0
    /\ threads = Preloaded.threads
    /\ messages = Preloaded.messages
    /\ events = <<>>
    /\ relayOut = <<>>
    /\ saveResult = ""
    /\ lastMsg = NoMessage
    /\ lastOp = NoOp
    /\ savedBefore = {<<m.id, m.thread_id>> :
                        m \in {n \in Preloaded.messages : ~n.is_outgoing}}
    /\ storeOps = 0
    /\ InitElsewhere /\ InitRelay
    /\ build = "release"

StoredSpec == StoredInit /\ [][StoreNext]_vars

\* C35 (as claimed): a message whose status is read keeps that status in
\* every later store call for as long as its row exists.
C35_StatusForward ==
    [][\A m \in messages, n \in messages' :
          (n.id = m.id /\ m.status = "read") => n.status = "read"]_vars

\* C36 (as claimed): the unread_count of each thread is at most the number
\* of incoming messages stored in that thread.
C36_UnreadBounded ==
    \A t \in threads :
       t.unread_count
         <= Cardinality({m \in messages : m.thread_id = t.id /\ ~m.is_outgoing})

\* C37 (as claimed): when send_message is called and the relay session has
\* no sender to take the envelope, the envelope is put into pending_messages.
C37_QueuedWhenDown ==
    [][(lastSend'.n = lastSend.n + 1 /\ lastSend'.message_id # ""
          /\ ~lastSend'.connected)
         => \E p \in pending_messages' : p.id = lastSend'.message_id]_vars

\* C24: decrypt_from_sender and open_envelope, called with the identity of
\* somebody the payload was not sealed for, return DecryptionFailed and no
\* plaintext, whichever form the envelope has.
C24_WrongRecipient ==
    (returned.f = "open_envelope" /\ arg.recipient # arg.sealed_for)
      => /\ ~returned.decrypted.ok
         /\ returned.decrypted.err = "DecryptionFailed"
         /\ returned.decrypted.pt = NoPlaintext
         /\ \A opened_ \in {returned.object, returned.string} :
              /\ ~opened_.ok
              /\ opened_.err = "DecryptionFailed"
              /\ opened_.payload = NoPlaintext

\* carol has tried to open an envelope alice sealed for bob.
C24_Witness ==
    /\ returned.f = "open_envelope"
    /\ arg.recipient = "carol" /\ arg.sealed_for = "bob"
    /\ arg.envelope.to_public_keys = <<public_key_hex("bob")>>
    /\ ~returned.object.ok

\* C27 (as claimed): once the sender of a connection is gone (disconnect or
\* reconnect was called), the reader task and the writer task of that
\* connection end.
C27_TasksTerminate ==
    \A g \in 1..MaxConnections :
       (g \in readers \cup writers /\ sender # g)
          ~> (g \notin readers /\ g \notin writers)

\* Task t waits for the mutex.
Awaits(t, mutex) ==
    at[t] \in
      CASE mutex = "identity" ->
             {"env_lock_identity", "dec_lock_identity", "snd_lock_identity",
              "bs_lock_identity", "ch_lock_identity", "ch_relock_identity",
              "em_lock_identity", "rc_lock_identity"}
        [] mutex = "database" ->
             {"env_lock_db", "dec_lock_db", "snd_lock_db", "ui_lock_db",
              "bs_lock_db", "ch_lock_db", "os_lock_db", "em_lock_db"}
        [] OTHER ->
             {"env_lock_relay", "dec_lock_relay", "snd_lock_relay",
              "st_lock_relay", "os_lock_relay", "em_lock_relay",
              "rc_lock_relay"}

\* C28 (as claimed): no two tasks each hold a mutex the other waits for.
C28_NoDeadlock ==
    \A t, u \in Tasks : \A m, n \in Mutexes :
       ~(/\ t # u
         /\ holder[m] = t /\ Awaits(t, n)
         /\ holder[n] = u /\ Awaits(u, m))

\* C29 (as claimed): with one own key, the direct-thread ids of two
\* different peers differ, and messages to the two are stored in two
\* threads.
C29_PeersSeparated ==
    (returned.f = "peers" /\ arg.p # arg.q)
      => /\ returned.with_p # returned.with_q
         /\ Cardinality(returned.stored) = 2

\* C30 (as claimed): when the end of a reader or writer task takes the
\* state from Connected to Disconnected, the task is one of the newest
\* connection.
C30_StaleTasksSilent ==
    [][(/\ state = "Connected" /\ state' = "Disconnected"
        /\ <<readers, writers>>' # <<readers, writers>>)
         => (readers \ readers') \cup (writers \ writers') = {generation}]_vars

\* C21 (as claimed): a frame without a "type" member that is an envelope in
\* the wire format of GnsEnvelope reaches the router as Envelope.
C21_BareEnvelope ==
    [][(wire.type = "" /\ wire.hasFrom /\ handled' = handled + 1)
         => lastMsg'.kind = "Envelope"]_vars

\* C31 (as claimed): when connect, called directly or at the end of
\* reconnect, returns an error, the state is Disconnected and no sender is
\* installed.
C31_FailedConnect ==
    [][(pc = "dialing" /\ pc' = "failed")
         => (state' = "Disconnected" /\ sender' = 0)]_vars

\* C32 (as claimed): a send_raw / send_envelope call made while the state is
\* Disconnected, Connecting or Reconnecting returns NotConnected: it puts no
\* frame into a queue and does not wait for room in one.
C32_SendOnlyConnected ==
    [][(HostIdle /\ state # "Connected")
         => /\ \A g \in 1..MaxConnections : Len(queued'[g]) <= Len(queued[g])
            /\ pc' # "send_blocked"]_vars

\* C34 (as claimed): for every value the counter has when reconnect computes
\* its delay, min(1000 * 2^attempts, 30000) is computed without a panic, lies
\* between 2000 and 30000 ms and is no smaller than the delay of any smaller
\* counter.
C34_BackoffMonotone ==
    pc = "reconnect_backoff"
      => LET delay == BackoffDelay(reconnect_attempts, build = "debug")
         IN  /\ ~delay.panic
             /\ delay.ms >= 2000 /\ delay.ms <= 30000
             /\ \A smaller \in 1..reconnect_attempts :
                  BackoffDelay(smaller, FALSE).ms <= delay.ms

\* C38 (as claimed): an email the sender stores, by save_sent_email_message or
\* by save_sent_message, with or without an explicit thread_id, and an inbound
\* email whose subject normalizes to the same string are under one thread id.
C38_OneEmailThread ==
    (returned.f = "email_thread" /\ returned.same_subject)
      => /\ returned.sent_email = returned.received
         /\ returned.sent = returned.received

\* The claim-eligibility predicate over a breadcrumbs table: at least 100
\* rows, at least 10 cells, at least 7 days from the first to the last.
EligibleRows(rows) ==
    /\ Cardinality(rows) >= MinBreadcrumbs
    /\ Cardinality({r.h3_index : r \in rows}) >= MinLocations
    /\ \E first \in rows, last \in rows :
         /\ \A r \in rows : first.timestamp <= r.timestamp
                            /\ r.timestamp <= last.timestamp
         /\ last.timestamp - first.timestamp >= MinSpanSeconds

\* C39 (as claimed): claim_handle submits a claim to the directory only when
\* the stored breadcrumbs are at least 100, in at least 10 cells, and span at
\* least 7 days from the first to the last.
C39_ClaimOnlyEligible ==
    (returned.f = "claim_handle" /\ returned.submitted)
      => EligibleRows(arg.rows)

\* C11 (as claimed): at any time at most one reader task and at most one
\* writer task of the session is running.
C11_SingleTasks ==
    /\ Cardinality(readers) <= 1
    /\ Cardinality(writers) <= 1

====
